---- MODULE Spec2Model ----
(***************************************************************************)
(* Model of the background job subsystem of the camera file organizer:     *)
(*   core/copy_worker.py  - JobState, CopyJobRegistry, CopyWorker, CopyJob *)
(*   ui/controllers.py    - SourceScanController (request sequencer)       *)
(*   core/file_manager.py - FileManager (scan, date resolution)            *)
(*                                                                         *)
(* Threads are modelled at the granularity of the shared accesses of the   *)
(* code: a block run under a lock is one step, every access outside a lock *)
(* (the cancel event, Thread.is_alive, the file system) is a step of its   *)
(* own.  The section "locks" models the same classes with the locks made   *)
(* explicit: waiting for a lock and the block run under it are two steps.  *)
(***************************************************************************)
EXTENDS Integers, Sequences, FiniteSets, TLC

\* ------------------------------------------------------------ bounds
MaxJobs == 2
MaxTotalFiles == 3
MaxCancels == 2
MaxScans == 3
MaxCallers == 2
MaxOps == 3
MaxTreeFiles == 3

JobIds == 1..MaxJobs
CancelIds == 1..MaxCancels
Names == {"n1", "n2"}
ScanIds == 1..MaxScans
Folders == {"f1", "f2"}

\* ------------------------------------------------------------ JobState
QUEUED == "queued"
RUNNING == "running"
COMPLETED == "completed"
FAILED == "failed"
CANCELLED == "cancelled"

TerminalStates == {COMPLETED, FAILED, CANCELLED}

\* ------------------------------------------------------------ paths
\* A file name is its stem and its extension; the stem is a base word and
\* the numeric parts appended to it with "_" ("a_1" is base "a", sfx <<1>>).
FileName(base, sfx, ext) == [base |-> base, sfx |-> sfx, ext |-> ext]

InputFiles ==
    { FileName("a", <<>>, "jpg"),
      FileName("a", <<1>>, "jpg"),
      FileName("b", <<>>, "JPG"),
      FileName("c", <<>>, "") }

\* the names two jobs copy at the same time
SharedFiles == { FileName("a", <<>>, "jpg") }

\* str.lower() on the extensions that occur
Lower(ext) == IF ext = "JPG" THEN "jpg" ELSE ext

\* file_path.suffix.lower().lstrip('.'), 'no_extension' when empty
BucketOf(f) == IF Lower(f.ext) = "" THEN "no_extension" ELSE Lower(f.ext)

\* original_dest.with_stem(f"{original_dest.stem}_{counter}")
WithCounter(f, counter) == [f EXCEPT !.sfx = Append(f.sfx, counter)]

DestPath(name, bucket, f) == [job |-> name, bucket |-> bucket, file |-> f]

\* the while loop over dest_path.exists(): the original name when it is free,
\* else the first counter 1, 2, ... whose name is free
RECURSIVE ProbeCounter(_, _, _, _, _)
ProbeCounter(existing, name, bucket, f, counter) ==
    IF DestPath(name, bucket, WithCounter(f, counter)) \in existing
    THEN ProbeCounter(existing, name, bucket, f, counter + 1)
    ELSE DestPath(name, bucket, WithCounter(f, counter))

\* a copy that takes the original name whether or not it exists
ChooseDestOverwriting(existing, name, bucket, f) == DestPath(name, bucket, f)

ChooseDest(existing, name, bucket, f) ==
    IF DestPath(name, bucket, f) \in existing
    THEN ProbeCounter(existing, name, bucket, f, 1)
    ELSE DestPath(name, bucket, f)

\* buckets taken in the opposite order
RECURSIVE BucketOrderReversed(_)
BucketOrderReversed(files) ==
    IF files = <<>> THEN <<>>
    ELSE LET back == BucketOrderReversed(SubSeq(files, 1, Len(files) - 1))
             b == BucketOf(files[Len(files)])
         IN IF \E i \in 1..Len(back) : back[i] = b THEN back
            ELSE << b >> \o back

\* files_by_ext: the buckets in the order their first file appears
RECURSIVE BucketOrder(_)
BucketOrder(files) ==
    IF files = <<>> THEN <<>>
    ELSE LET front == BucketOrder(SubSeq(files, 1, Len(files) - 1))
             b == BucketOf(files[Len(files)])
         IN IF \E i \in 1..Len(front) : front[i] = b THEN front
            ELSE Append(front, b)

\* files_by_ext[bucket]: the indices of the bucket's files, in input order
RECURSIVE BucketIndices(_, _)
BucketIndices(files, bucket) ==
    IF files = <<>> THEN <<>>
    ELSE LET front == BucketIndices(SubSeq(files, 1, Len(files) - 1), bucket)
         IN IF BucketOf(files[Len(files)]) = bucket
            THEN Append(front, Len(files))
            ELSE front

Batches(alphabet, n) == UNION { [1..k -> alphabet] : k \in 0..n }

\* the file lists handed to copy_files
SharedBatches == Batches(SharedFiles, MaxTotalFiles)

InputBatches == Batches(InputFiles, MaxTotalFiles)

\* file lists over two buckets
MixedFiles == { FileName("a", <<>>, "jpg"), FileName("c", <<>>, "") }

MixedBatches == Batches(MixedFiles, MaxTotalFiles)

\* ------------------------------------------------------------ DateSource
FILESYSTEM == "filesystem"
METADATA == "metadata"

\* the locals of a gather_files_by_date call that has not been made
NoGather ==
    [pc |-> "idle", via |-> 0, event |-> FALSE, candidates |-> <<>>, i |-> 0,
     files_by_date |-> <<>>, processed |-> 0, total |-> 0, progress |-> <<>>,
     result |-> <<>>, exc |-> "", saw |-> FALSE, on_progress |-> FALSE]

\* the event has not been set
NotSet == [pc |-> "none", i |-> 0, resolved |-> 0, progress |-> 0]

\* ------------------------------------------------------------ state
VARIABLES
    state,        \* CopyJob._state, "none" for a job not yet constructed
    cancelEvent,  \* CopyJob._cancel_event
    error,        \* CopyJob.error
    jname,        \* CopyJob.custom_name
    jfiles,       \* CopyJob.files
    registry,     \* CopyJobRegistry._jobs: name -> job id, 0 when absent
    regKeys,      \* the keys of CopyJobRegistry._jobs in insertion order
    wpc,          \* position of the job's thread in CopyJob.run
    wEmit,        \* state changed by the worker's _set_state, not yet emitted
    bi,           \* index of the current bucket in files_by_ext
    fi,           \* index of the current file in the bucket
    cur,          \* current_file
    dest,         \* dest_path chosen for the file being copied
    fs,           \* destination files: path -> <<job, input index>> written
    dirs,         \* destination directories that exist
    stateLog,     \* on_status_change calls received per job, in order
    progLog,      \* on_progress calls received per job, in order
    nComplete,    \* on_complete calls per job
    errLog,       \* on_error calls per job
    cpc,          \* position of each cancel() call
    cjob,         \* the job a cancel() call acts on
    cret,         \* what a cancel() call returned
    cEmit,        \* state changed by the call's _set_state, not yet emitted
    flagPos,      \* history: wpc of the job when its cancel flag was set
    sawFlag,      \* history: a cancellation check of run() has seen the flag
    lateCopies,   \* history: file copies begun after the flag was set
    overwrites,   \* history: copies of the job that wrote to an existing path
    ndirs,        \* history: mkdir calls made by the job
    requestId,    \* SourceScanController._request_id
    scans,        \* the scan requests: their worker's progress and folder
    uiQueue,      \* calls scheduled with root.after(0, ...), oldest first
    fmSource,     \* FileManager.source_folder
    fmFiles,      \* FileManager.files_by_date
    cbLog,        \* on_started/on_success/on_error calls, with their request
    applied,      \* history: the requests whose result was applied
    lock,         \* CopyJobRegistry._lock: the thread that holds it, 0 if free
    state_lock,   \* CopyJob._state_lock of each job: its holder, 0 if free
    tpc,          \* position of each thread, at the granularity of the locks
    frame,        \* the call each thread is in
    nops,         \* calls made so far by the callers
    lseen,        \* history: the name -> state mappings that have held since
                  \* a list_jobs call in progress was made
    transitions,  \* history: the values _state of each job has taken, in order
    flagEarly,    \* history: the cancel flag was set before the cancellation
                  \* check that precedes the job's last file
    disk,         \* the source folder: whether it exists, and its entries
    tagOrder,     \* the iteration order of the set EXIF_DATE_TAGS
    date_source,  \* FileManager.date_source
    cancel_event, \* the Event handed to gather_files_by_date: is it set
    gather,       \* the gather_files_by_date call: its position and locals
    setAt,        \* history: where the scan was when its event was set
    resolved,     \* history: the candidates whose date has been resolved,
                  \* with the policy read and the date returned
    uiLog         \* the handlers of MainWindow that the UI thread has run for
                  \* the callbacks of a copy job, in order

copyVars ==
    << state, cancelEvent, error, jname, jfiles, registry, regKeys, wpc, wEmit,
       bi, fi, cur, dest, fs, dirs, stateLog, progLog, nComplete, errLog, cpc,
       cjob, cret, cEmit, flagPos, sawFlag, lateCopies, overwrites, ndirs,
       transitions, flagEarly >>

fileVars ==
    << disk, tagOrder, date_source, cancel_event, gather, setAt, resolved,
       uiLog >>

scanVars ==
    << requestId, scans, uiQueue, fmSource, fmFiles, cbLog, applied, fileVars >>

threadVars == << lock, state_lock, tpc, frame, nops, lseen >>

vars == << copyVars, scanVars, threadVars >>

NoPath == [job |-> "", bucket |-> "", file |-> FileName("", <<>>, "")]

\* main_folder = target_folder / custom_name; ext_folder = main_folder / ext
MainFolder(name) == [job |-> name, bucket |-> ""]
ExtFolder(name, bucket) == [job |-> name, bucket |-> bucket]

\* what the destination holds before the first job: folder n1 has files of
\* an earlier import, folder n2 does not exist
PreExisting ==
    { DestPath("n1", "jpg", FileName("a", <<>>, "jpg")),
      DestPath("n1", "jpg", FileName("a", <<2>>, "jpg")) }

InitJobs ==
    /\ state = [j \in JobIds |-> "none"]
    /\ cancelEvent = [j \in JobIds |-> FALSE]
    /\ error = [j \in JobIds |-> "None"]
    /\ jname = [j \in JobIds |-> ""]
    /\ jfiles = [j \in JobIds |-> <<>>]
    /\ registry = [n \in Names |-> 0]
    /\ regKeys = <<>>
    /\ wpc = [j \in JobIds |-> "none"]
    /\ wEmit = [j \in JobIds |-> "none"]
    /\ bi = [j \in JobIds |-> 0]
    /\ fi = [j \in JobIds |-> 0]
    /\ cur = [j \in JobIds |-> 0]
    /\ dest = [j \in JobIds |-> NoPath]
    /\ fs = [p \in PreExisting |-> <<0, 0>>]
    /\ dirs = {MainFolder(p.job) : p \in PreExisting}
                \cup {ExtFolder(p.job, p.bucket) : p \in PreExisting}
    /\ stateLog = [j \in JobIds |-> <<>>]
    /\ progLog = [j \in JobIds |-> <<>>]
    /\ nComplete = [j \in JobIds |-> 0]
    /\ errLog = [j \in JobIds |-> <<>>]
    /\ cpc = [t \in CancelIds |-> "idle"]
    /\ cjob = [t \in CancelIds |-> 0]
    /\ cret = [t \in CancelIds |-> "none"]
    /\ cEmit = [t \in CancelIds |-> "none"]
    /\ flagPos = [j \in JobIds |-> "unset"]
    /\ sawFlag = [j \in JobIds |-> FALSE]
    /\ lateCopies = [j \in JobIds |-> 0]
    /\ overwrites = [j \in JobIds |-> 0]
    /\ ndirs = [j \in JobIds |-> 0]
    /\ requestId = 0
    /\ scans = [r \in ScanIds |-> [status |-> "none", folder |-> "", late |-> FALSE]]
    /\ uiQueue = <<>>
    /\ fmSource = "None"
    /\ fmFiles = <<>>
    /\ cbLog = <<>>
    /\ applied = <<>>
    /\ lock = 0
    /\ state_lock = [j \in JobIds |-> 0]
    /\ tpc = [th \in 1..(MaxCallers + MaxJobs) |->
                 IF th <= MaxCallers THEN "idle" ELSE "none"]
    /\ frame = [th \in 1..(MaxCallers + MaxJobs) |->
                   [op |-> "none", job |-> 0, name |-> "", target |-> "",
                    ret |-> "", snap |-> <<>>, res |-> <<>>, count |-> 0]]
    /\ nops = 0
    /\ lseen = [t \in 1..MaxCallers |-> {}]
    /\ transitions = [j \in JobIds |-> <<>>]
    /\ flagEarly = [j \in JobIds |-> FALSE]
    /\ date_source = FILESYSTEM
    /\ cancel_event = FALSE
    /\ gather = NoGather
    /\ setAt = NotSet
    /\ resolved = <<>>
    /\ uiLog = <<>>

\* the copy worker and the request sequencer; no folder is read
Init ==
    /\ InitJobs
    /\ disk = [exists |-> FALSE, entries |-> {}]
    /\ tagOrder = << "DateTimeOriginal", "DateTimeDigitized", "DateTime" >>

\* ------------------------------------------------------------ helpers
\* a thread that never counts as alive
IsAliveNever(j) == FALSE

\* Thread.is_alive(): started and not yet stopped
IsAlive(j) == wpc[j] \notin {"none", "queued", "dead"}

\* a _set_state that never reports a change
StateChangesNever(current, new) == FALSE

\* a _set_state without the test for the same state
StateChangesAlways(current, new) == TRUE

\* _set_state: under the state lock, return when the state is the same,
\* else assign; the caller emits afterwards, outside the lock
StateChanges(current, new) == current # new

\* an unregister that removes nothing
UnregisterNothing(reg, name) == reg

\* _state_handler: the observer is told, a terminal state unregisters the name
Unregister(reg, name) == [reg EXCEPT ![name] = 0]

Register(reg, name, j) == [reg EXCEPT ![name] = j]

\* history: an assignment to _state that changes its value is a transition
Transition(log, old, new) == IF old # new THEN Append(log, new) ELSE log

\* the order of the keys of the dict: a new key goes to the end, a key that
\* is assigned again keeps its place, pop removes the key
KeysAfterRegister(keys, name) ==
    IF \E i \in 1..Len(keys) : keys[i] = name THEN keys ELSE Append(keys, name)

KeysAfterUnregister(keys, name) == SelectSeq(keys, LAMBDA k : k # name)

EmitEffect(j, s) ==
    /\ stateLog' = [stateLog EXCEPT ![j] = Append(@, s)]
    /\ registry' = IF s \in TerminalStates THEN Unregister(registry, jname[j])
                   ELSE registry
    /\ regKeys' = IF s \in TerminalStates
                  THEN KeysAfterUnregister(regKeys, jname[j])
                  ELSE regKeys

RECURSIVE TotalLen(_)
TotalLen(n) == IF n = 0 THEN 0 ELSE Len(jfiles[n]) + TotalLen(n - 1)

\* ------------------------------------------------------------ CopyWorker
\* the job is constructed (its QUEUED state is emitted by __init__) and
\* registered; its thread is left at the given position
RegisterJob(j, name, files, at) ==
    /\ state[j] = "none"
    /\ \A k \in 1..(j - 1) : state[k] # "none"
    /\ TotalLen(MaxJobs) + Len(files) <= MaxTotalFiles
    /\ state' = [state EXCEPT ![j] = QUEUED]
    /\ transitions' = [transitions EXCEPT ![j] =
                          Transition(@, state[j], QUEUED)]
    /\ jname' = [jname EXCEPT ![j] = name]
    /\ jfiles' = [jfiles EXCEPT ![j] = files]
    /\ stateLog' = [stateLog EXCEPT ![j] = Append(@, QUEUED)]
    /\ registry' = Register(registry, name, j)
    /\ regKeys' = KeysAfterRegister(regKeys, name)
    /\ wpc' = [wpc EXCEPT ![j] = at]
    /\ UNCHANGED threadVars
    /\ UNCHANGED << cancelEvent, error, wEmit, bi, fi, cur, dest, fs, dirs,
                    progLog, nComplete, errLog, cpc, cjob, cret, cEmit, flagPos, flagEarly,
                    sawFlag, lateCopies, overwrites, ndirs >>

\* copy_files, up to and including registry.register(job)
CopyFilesRegister(j, name, files) ==
    /\ RegisterJob(j, name, files, "queued")
    /\ UNCHANGED scanVars

\* copy_files: job.start()
CopyFilesStart(j) ==
    /\ wpc[j] = "queued"
    /\ wpc' = [wpc EXCEPT ![j] = "r0"]
    /\ UNCHANGED << scanVars, threadVars >>
    /\ UNCHANGED << state, transitions, cancelEvent, error, jname, jfiles, registry, regKeys, wEmit,
                    bi, fi, cur, dest, fs, dirs, stateLog, progLog, nComplete,
                    errLog, cpc, cjob, cret, cEmit, flagPos, flagEarly, sawFlag,
                    lateCopies, overwrites, ndirs >>

\* ------------------------------------------------------------ CopyJob.run
cancelCallVars == << cpc, cjob, cret, cEmit >>

CurBucket(j) == BucketOrder(jfiles[j])[bi[j]]
CurIndex(j) == BucketIndices(jfiles[j], CurBucket(j))[fi[j]]

\* the three cancellation checks of run(): at its start, before each bucket
\* and before each file (the Skipped variants are a run() without the check)
CheckAtStartSkipped(flag) == FALSE
CheckAtStart(flag) == flag
CheckAtBucket(flag) == flag
CheckAtFileSkipped(flag) == FALSE
CheckAtFile(flag) == flag

\* a check that returns without setting the state
RunCancelledNoState(j) ==
    /\ UNCHANGED << state, transitions, wEmit >>
    /\ wpc' = [wpc EXCEPT ![j] = "exit"]
    /\ sawFlag' = [sawFlag EXCEPT ![j] = TRUE]

\* self._set_state(JobState.CANCELLED); return
RunCancelled(j) ==
    /\ state' = [state EXCEPT ![j] = CANCELLED]
    /\ transitions' = [transitions EXCEPT ![j] =
                          Transition(@, state[j], CANCELLED)]
    /\ wEmit' = [wEmit EXCEPT ![j] =
                    IF StateChanges(state[j], CANCELLED) THEN CANCELLED ELSE "none"]
    /\ wpc' = [wpc EXCEPT ![j] = "exit"]
    /\ sawFlag' = [sawFlag EXCEPT ![j] = TRUE]

\* _emit_state after a _set_state of the worker that changed the state
RunEmit(j) ==
    /\ wEmit[j] # "none"
    /\ EmitEffect(j, wEmit[j])
    /\ wEmit' = [wEmit EXCEPT ![j] = "none"]
    /\ UNCHANGED << scanVars, threadVars >>
    /\ UNCHANGED << state, transitions, cancelEvent, error, jname, jfiles, wpc, bi, fi, cur,
                    dest, fs, dirs, progLog, nComplete, errLog, cancelCallVars,
                    flagPos, flagEarly, sawFlag, lateCopies, overwrites, ndirs >>

\* if self._cancel_event.is_set(): ... return
RunCheckStart(j) ==
    /\ wpc[j] = "r0" /\ wEmit[j] = "none"
    /\ IF CheckAtStart(cancelEvent[j])
       THEN RunCancelled(j)
       ELSE /\ wpc' = [wpc EXCEPT ![j] = "r1"]
            /\ UNCHANGED << state, transitions, wEmit, sawFlag >>
    /\ UNCHANGED << scanVars, threadVars >>
    /\ UNCHANGED << cancelEvent, error, jname, jfiles, registry, regKeys, bi, fi, cur,
                    dest, fs, dirs, stateLog, progLog, nComplete, errLog,
                    cancelCallVars, flagPos, flagEarly, lateCopies, overwrites, ndirs >>

\* self._set_state(JobState.RUNNING)
RunSetRunning(j) ==
    /\ wpc[j] = "r1" /\ wEmit[j] = "none"
    /\ state' = [state EXCEPT ![j] = RUNNING]
    /\ transitions' = [transitions EXCEPT ![j] =
                          Transition(@, state[j], RUNNING)]
    /\ wEmit' = [wEmit EXCEPT ![j] =
                    IF StateChanges(state[j], RUNNING) THEN RUNNING ELSE "none"]
    /\ wpc' = [wpc EXCEPT ![j] = "mkmain"]
    /\ UNCHANGED << scanVars, threadVars >>
    /\ UNCHANGED << cancelEvent, error, jname, jfiles, registry, regKeys, bi, fi, cur,
                    dest, fs, dirs, stateLog, progLog, nComplete, errLog,
                    cancelCallVars, flagPos, flagEarly, sawFlag, lateCopies, overwrites,
                    ndirs >>

\* main_folder.mkdir(parents=True, exist_ok=True), then files_by_ext is built
\* and the loop over its buckets is entered
RunMkMain(j) ==
    /\ wpc[j] = "mkmain" /\ wEmit[j] = "none"
    /\ dirs' = dirs \cup {MainFolder(jname[j])}
    /\ ndirs' = [ndirs EXCEPT ![j] = @ + 1]
    /\ IF BucketOrder(jfiles[j]) = <<>>
       THEN wpc' = [wpc EXCEPT ![j] = "complete"] /\ UNCHANGED bi
       ELSE wpc' = [wpc EXCEPT ![j] = "bucket"] /\ bi' = [bi EXCEPT ![j] = 1]
    /\ UNCHANGED << scanVars, threadVars >>
    /\ UNCHANGED << state, transitions, cancelEvent, error, jname, jfiles, registry, regKeys, wEmit,
                    fi, cur, dest, fs, stateLog, progLog, nComplete, errLog,
                    cancelCallVars, flagPos, flagEarly, sawFlag, lateCopies, overwrites >>

\* for ext, ext_files in files_by_ext.items(): if cancelled: ... return
RunCheckBucket(j) ==
    /\ wpc[j] = "bucket" /\ wEmit[j] = "none"
    /\ IF CheckAtBucket(cancelEvent[j])
       THEN RunCancelled(j)
       ELSE /\ wpc' = [wpc EXCEPT ![j] = "mkbucket"]
            /\ UNCHANGED << state, transitions, wEmit, sawFlag >>
    /\ UNCHANGED << scanVars, threadVars >>
    /\ UNCHANGED << cancelEvent, error, jname, jfiles, registry, regKeys, bi, fi, cur,
                    dest, fs, dirs, stateLog, progLog, nComplete, errLog,
                    cancelCallVars, flagPos, flagEarly, lateCopies, overwrites, ndirs >>

\* ext_folder.mkdir(exist_ok=True), then the loop over the bucket's files
RunMkBucket(j) ==
    /\ wpc[j] = "mkbucket" /\ wEmit[j] = "none"
    /\ dirs' = dirs \cup {ExtFolder(jname[j], CurBucket(j))}
    /\ ndirs' = [ndirs EXCEPT ![j] = @ + 1]
    /\ wpc' = [wpc EXCEPT ![j] = "file"]
    /\ fi' = [fi EXCEPT ![j] = 1]
    /\ UNCHANGED << scanVars, threadVars >>
    /\ UNCHANGED << state, transitions, cancelEvent, error, jname, jfiles, registry, regKeys, wEmit,
                    bi, cur, dest, fs, stateLog, progLog, nComplete, errLog,
                    cancelCallVars, flagPos, flagEarly, sawFlag, lateCopies, overwrites >>

\* for file_path in ext_files: if cancelled: ... return
RunCheckFile(j) ==
    /\ wpc[j] = "file" /\ wEmit[j] = "none"
    /\ IF CheckAtFile(cancelEvent[j])
       THEN RunCancelled(j)
       ELSE /\ wpc' = [wpc EXCEPT ![j] = "prep"]
            /\ UNCHANGED << state, transitions, wEmit, sawFlag >>
    /\ UNCHANGED << scanVars, threadVars >>
    /\ UNCHANGED << cancelEvent, error, jname, jfiles, registry, regKeys, bi, fi, cur,
                    dest, fs, dirs, stateLog, progLog, nComplete, errLog,
                    cancelCallVars, flagPos, flagEarly, lateCopies, overwrites, ndirs >>

\* a counter that is never advanced
NextCurrentStuck(current_file) == current_file

\* current_file += 1
NextCurrent(current_file) == current_file + 1

\* current_file += 1; on_progress(current_file, total_files); then the
\* destination name is chosen by probing dest_path.exists()
RunPrepare(j) ==
    /\ wpc[j] = "prep" /\ wEmit[j] = "none"
    /\ cur' = [cur EXCEPT ![j] = NextCurrent(@)]
    /\ progLog' = [progLog EXCEPT ![j] =
                      Append(@, << NextCurrent(cur[j]), Len(jfiles[j]) >>)]
    /\ dest' = [dest EXCEPT ![j] =
                   ChooseDest(DOMAIN fs, jname[j], CurBucket(j),
                              jfiles[j][CurIndex(j)])]
    /\ lateCopies' = [lateCopies EXCEPT ![j] =
                         IF cancelEvent[j] THEN @ + 1 ELSE @]
    /\ wpc' = [wpc EXCEPT ![j] = "copy"]
    /\ UNCHANGED << scanVars, threadVars >>
    /\ UNCHANGED << state, transitions, cancelEvent, error, jname, jfiles, registry, regKeys, wEmit,
                    bi, fi, fs, dirs, stateLog, nComplete, errLog,
                    cancelCallVars, flagPos, flagEarly, sawFlag, overwrites, ndirs >>

\* shutil.copy2(file_path, dest_path), then on to the next file, the next
\* bucket or the end of the loops
RunCopy(j) ==
    /\ wpc[j] = "copy" /\ wEmit[j] = "none"
    /\ fs' = (dest[j] :> << j, CurIndex(j) >>) @@ fs
    /\ overwrites' = [overwrites EXCEPT ![j] =
                         IF dest[j] \in DOMAIN fs THEN @ + 1 ELSE @]
    /\ IF fi[j] < Len(BucketIndices(jfiles[j], CurBucket(j)))
       THEN /\ fi' = [fi EXCEPT ![j] = @ + 1]
            /\ wpc' = [wpc EXCEPT ![j] = "file"]
            /\ UNCHANGED bi
       ELSE IF bi[j] < Len(BucketOrder(jfiles[j]))
       THEN /\ bi' = [bi EXCEPT ![j] = @ + 1]
            /\ wpc' = [wpc EXCEPT ![j] = "bucket"]
            /\ UNCHANGED fi
       ELSE /\ wpc' = [wpc EXCEPT ![j] = "complete"]
            /\ UNCHANGED << bi, fi >>
    /\ UNCHANGED << scanVars, threadVars >>
    /\ UNCHANGED << state, transitions, cancelEvent, error, jname, jfiles, registry, regKeys, wEmit,
                    cur, dest, dirs, stateLog, progLog, nComplete, errLog,
                    cancelCallVars, flagPos, flagEarly, sawFlag, lateCopies, ndirs >>

\* an OSError raised by mkdir or copy2: except Exception as exc:
\* self.error = str(exc)
RunIoError(j) ==
    /\ wpc[j] \in {"mkmain", "mkbucket", "copy"} /\ wEmit[j] = "none"
    /\ error' = [error EXCEPT ![j] = "OSError"]
    /\ wpc' = [wpc EXCEPT ![j] = "failed"]
    /\ UNCHANGED << scanVars, threadVars >>
    /\ UNCHANGED << state, transitions, cancelEvent, jname, jfiles, registry, regKeys, wEmit, bi, fi,
                    cur, dest, fs, dirs, stateLog, progLog, nComplete, errLog,
                    cancelCallVars, flagPos, flagEarly, sawFlag, lateCopies, overwrites,
                    ndirs >>

\* self._set_state(JobState.FAILED)
RunSetFailed(j) ==
    /\ wpc[j] = "failed" /\ wEmit[j] = "none"
    /\ state' = [state EXCEPT ![j] = FAILED]
    /\ transitions' = [transitions EXCEPT ![j] =
                          Transition(@, state[j], FAILED)]
    /\ wEmit' = [wEmit EXCEPT ![j] =
                    IF StateChanges(state[j], FAILED) THEN FAILED ELSE "none"]
    /\ wpc' = [wpc EXCEPT ![j] = "onerror"]
    /\ UNCHANGED << scanVars, threadVars >>
    /\ UNCHANGED << cancelEvent, error, jname, jfiles, registry, regKeys, bi, fi, cur,
                    dest, fs, dirs, stateLog, progLog, nComplete, errLog,
                    cancelCallVars, flagPos, flagEarly, sawFlag, lateCopies, overwrites,
                    ndirs >>

\* self.on_error(self.custom_name, str(exc))
RunOnError(j) ==
    /\ wpc[j] = "onerror" /\ wEmit[j] = "none"
    /\ errLog' = [errLog EXCEPT ![j] = Append(@, error[j])]
    /\ wpc' = [wpc EXCEPT ![j] = "exit"]
    /\ UNCHANGED << scanVars, threadVars >>
    /\ UNCHANGED << state, transitions, cancelEvent, error, jname, jfiles, registry, regKeys, wEmit,
                    bi, fi, cur, dest, fs, dirs, stateLog, progLog, nComplete,
                    cancelCallVars, flagPos, flagEarly, sawFlag, lateCopies, overwrites,
                    ndirs >>

\* self._set_state(JobState.COMPLETED)
RunSetCompleted(j) ==
    /\ wpc[j] = "complete" /\ wEmit[j] = "none"
    /\ state' = [state EXCEPT ![j] = COMPLETED]
    /\ transitions' = [transitions EXCEPT ![j] =
                          Transition(@, state[j], COMPLETED)]
    /\ wEmit' = [wEmit EXCEPT ![j] =
                    IF StateChanges(state[j], COMPLETED) THEN COMPLETED ELSE "none"]
    /\ wpc' = [wpc EXCEPT ![j] = "oncomplete"]
    /\ UNCHANGED << scanVars, threadVars >>
    /\ UNCHANGED << cancelEvent, error, jname, jfiles, registry, regKeys, bi, fi, cur,
                    dest, fs, dirs, stateLog, progLog, nComplete, errLog,
                    cancelCallVars, flagPos, flagEarly, sawFlag, lateCopies, overwrites,
                    ndirs >>

\* self.on_complete(self.custom_name)
RunOnComplete(j) ==
    /\ wpc[j] = "oncomplete" /\ wEmit[j] = "none"
    /\ nComplete' = [nComplete EXCEPT ![j] = @ + 1]
    /\ wpc' = [wpc EXCEPT ![j] = "exit"]
    /\ UNCHANGED << scanVars, threadVars >>
    /\ UNCHANGED << state, transitions, cancelEvent, error, jname, jfiles, registry, regKeys, wEmit,
                    bi, fi, cur, dest, fs, dirs, stateLog, progLog, errLog,
                    cancelCallVars, flagPos, flagEarly, sawFlag, lateCopies, overwrites,
                    ndirs >>

\* run() has returned; the thread stops and is_alive() turns false
ThreadExit(j) ==
    /\ wpc[j] = "exit" /\ wEmit[j] = "none"
    /\ wpc' = [wpc EXCEPT ![j] = "dead"]
    /\ UNCHANGED << scanVars, threadVars >>
    /\ UNCHANGED << state, transitions, cancelEvent, error, jname, jfiles, registry, regKeys, wEmit,
                    bi, fi, cur, dest, fs, dirs, stateLog, progLog, nComplete,
                    errLog, cancelCallVars, flagPos, flagEarly, sawFlag, lateCopies,
                    overwrites, ndirs >>

\* ------------------------------------------------------------ cancel
runVars == << wpc, wEmit, bi, fi, cur, dest, fs, dirs, progLog, nComplete,
              errLog, error, jname, jfiles >>

\* CopyWorker.cancel_job: job = self._registry.get(job_name);
\* not found returns False, else job.cancel() is entered
CancelJob(t, name) ==
    /\ cpc[t] = "idle"
    /\ IF registry[name] = 0
       THEN /\ cpc' = [cpc EXCEPT ![t] = "ret"]
            /\ cret' = [cret EXCEPT ![t] = "false"]
            /\ UNCHANGED cjob
       ELSE /\ cpc' = [cpc EXCEPT ![t] = "c1"]
            /\ cjob' = [cjob EXCEPT ![t] = registry[name]]
            /\ UNCHANGED cret
    /\ UNCHANGED << scanVars, threadVars >>
    /\ UNCHANGED << runVars, state, transitions, cancelEvent, registry, regKeys, stateLog, cEmit,
                    flagPos, flagEarly, sawFlag, lateCopies, overwrites, ndirs >>

\* with self._state_lock: if self._state in {COMPLETED, FAILED, CANCELLED}:
\* return False
CancelCheckState(t) ==
    /\ cpc[t] = "c1"
    /\ IF state[cjob[t]] \in TerminalStates
       THEN /\ cpc' = [cpc EXCEPT ![t] = "ret"]
            /\ cret' = [cret EXCEPT ![t] = "false"]
       ELSE /\ cpc' = [cpc EXCEPT ![t] = "c2"]
            /\ UNCHANGED cret
    /\ UNCHANGED << scanVars, threadVars >>
    /\ UNCHANGED << runVars, state, transitions, cancelEvent, registry, regKeys, stateLog, cjob,
                    cEmit, flagPos, flagEarly, sawFlag, lateCopies, overwrites, ndirs >>

\* if self._cancel_event.is_set(): return False
CancelCheckEvent(t) ==
    /\ cpc[t] = "c2"
    /\ IF cancelEvent[cjob[t]]
       THEN /\ cpc' = [cpc EXCEPT ![t] = "ret"]
            /\ cret' = [cret EXCEPT ![t] = "false"]
       ELSE /\ cpc' = [cpc EXCEPT ![t] = "c3"]
            /\ UNCHANGED cret
    /\ UNCHANGED << scanVars, threadVars >>
    /\ UNCHANGED << runVars, state, transitions, cancelEvent, registry, regKeys, stateLog, cjob,
                    cEmit, flagPos, flagEarly, sawFlag, lateCopies, overwrites, ndirs >>

\* the file being copied is the last of the last bucket
LastFile(j) ==
    /\ bi[j] = Len(BucketOrder(jfiles[j]))
    /\ fi[j] = Len(BucketIndices(jfiles[j], CurBucket(j)))

\* run() has not yet made the check "if self._cancel_event.is_set()" that
\* precedes the last file of the batch
BeforeLastCheck(j) ==
    /\ jfiles[j] # <<>>
    /\ \/ wpc[j] \in {"queued", "r0", "r1", "mkmain", "bucket", "mkbucket", "file"}
       \/ wpc[j] \in {"prep", "copy"} /\ ~LastFile(j)

\* self._cancel_event.set()
CancelSetEvent(t) ==
    /\ cpc[t] = "c3"
    /\ cancelEvent' = [cancelEvent EXCEPT ![cjob[t]] = TRUE]
    /\ flagEarly' = [flagEarly EXCEPT ![cjob[t]] =
                        IF cancelEvent[cjob[t]] THEN @ ELSE BeforeLastCheck(cjob[t])]
    /\ flagPos' = [flagPos EXCEPT ![cjob[t]] =
                      IF @ = "unset" THEN wpc[cjob[t]] ELSE @]
    /\ cpc' = [cpc EXCEPT ![t] = "c4"]
    /\ UNCHANGED << scanVars, threadVars >>
    /\ UNCHANGED << runVars, state, transitions, registry, regKeys, stateLog, cjob, cret, cEmit,
                    sawFlag, lateCopies, overwrites, ndirs >>

\* if not self.is_alive(): ... ; return True
CancelCheckAlive(t) ==
    /\ cpc[t] = "c4"
    /\ IF IsAlive(cjob[t])
       THEN /\ cpc' = [cpc EXCEPT ![t] = "ret"]
            /\ cret' = [cret EXCEPT ![t] = "true"]
       ELSE /\ cpc' = [cpc EXCEPT ![t] = "c5"]
            /\ UNCHANGED cret
    /\ UNCHANGED << scanVars, threadVars >>
    /\ UNCHANGED << runVars, state, transitions, cancelEvent, registry, regKeys, stateLog, cjob,
                    cEmit, flagPos, flagEarly, sawFlag, lateCopies, overwrites, ndirs >>

\* self._set_state(JobState.CANCELLED), its locked part; return True when
\* nothing is to be emitted
CancelSetCancelled(t) ==
    /\ cpc[t] = "c5"
    /\ state' = [state EXCEPT ![cjob[t]] = CANCELLED]
    /\ transitions' = [transitions EXCEPT ![cjob[t]] =
                          Transition(@, state[cjob[t]], CANCELLED)]
    /\ IF StateChanges(state[cjob[t]], CANCELLED)
       THEN /\ cEmit' = [cEmit EXCEPT ![t] = CANCELLED]
            /\ cpc' = [cpc EXCEPT ![t] = "c6"]
            /\ UNCHANGED cret
       ELSE /\ cpc' = [cpc EXCEPT ![t] = "ret"]
            /\ cret' = [cret EXCEPT ![t] = "true"]
            /\ UNCHANGED cEmit
    /\ UNCHANGED << scanVars, threadVars >>
    /\ UNCHANGED << runVars, cancelEvent, registry, regKeys, stateLog, cjob, flagPos, flagEarly,
                    sawFlag, lateCopies, overwrites, ndirs >>

\* self._emit_state(CANCELLED) of that _set_state; return True
CancelEmit(t) ==
    /\ cpc[t] = "c6"
    /\ EmitEffect(cjob[t], cEmit[t])
    /\ cEmit' = [cEmit EXCEPT ![t] = "none"]
    /\ cpc' = [cpc EXCEPT ![t] = "ret"]
    /\ cret' = [cret EXCEPT ![t] = "true"]
    /\ UNCHANGED << scanVars, threadVars >>
    /\ UNCHANGED << runVars, state, transitions, cancelEvent, cjob, flagPos, flagEarly, sawFlag,
                    lateCopies, overwrites, ndirs >>

\* ------------------------------------------------------------ specification
NextFor(jobs, calls, names, batches) ==
    \/ \E j \in jobs, name \in names,
          files \in batches :
          CopyFilesRegister(j, name, files)
    \/ \E j \in jobs : CopyFilesStart(j)
    \/ \E j \in jobs : RunEmit(j)
    \/ \E j \in jobs : RunCheckStart(j)
    \/ \E j \in jobs : RunSetRunning(j)
    \/ \E j \in jobs : RunMkMain(j)
    \/ \E j \in jobs : RunCheckBucket(j)
    \/ \E j \in jobs : RunMkBucket(j)
    \/ \E j \in jobs : RunCheckFile(j)
    \/ \E j \in jobs : RunPrepare(j)
    \/ \E j \in jobs : RunCopy(j)
    \/ \E j \in jobs : RunIoError(j)
    \/ \E j \in jobs : RunSetFailed(j)
    \/ \E j \in jobs : RunOnError(j)
    \/ \E j \in jobs : RunSetCompleted(j)
    \/ \E j \in jobs : RunOnComplete(j)
    \/ \E j \in jobs : ThreadExit(j)
    \/ \E t \in calls, name \in names : CancelJob(t, name)
    \/ \E t \in calls : CancelCheckState(t)
    \/ \E t \in calls : CancelCheckEvent(t)
    \/ \E t \in calls : CancelSetEvent(t)
    \/ \E t \in calls : CancelCheckAlive(t)
    \/ \E t \in calls : CancelSetCancelled(t)
    \/ \E t \in calls : CancelEmit(t)

\* several jobs at once, copying files of the same name, and a cancel_job
\* call
Next == NextFor(JobIds, {1}, Names, SharedBatches)

Spec == Init /\ [][Next]_vars

\* one job copying every batch of input files into the folder that already
\* holds files, and a cancel_job call
NextJob == NextFor({1}, {1}, {"n1"}, InputBatches)

SpecJob == Init /\ [][NextJob]_vars

\* one job and concurrent cancel_job calls
NextCancel == NextFor({1}, CancelIds, Names, SharedBatches)

SpecCancel == Init /\ [][NextCancel]_vars

\* one job and one cancel_job call
NextEvict == NextFor({1}, {1}, Names, SharedBatches)

\* the threads keep running: a thread that has changed a job's state under
\* the lock goes on to make the notification
SpecEvictFair ==
    /\ Init /\ [][NextEvict]_vars
    /\ WF_vars(RunEmit(1))
    /\ WF_vars(CancelEmit(1))

\* the steps of the job's thread, from the start of run() to its end
WorkerStep(j) ==
    \/ RunEmit(j) \/ RunCheckStart(j) \/ RunSetRunning(j) \/ RunMkMain(j)
    \/ RunCheckBucket(j) \/ RunMkBucket(j) \/ RunCheckFile(j) \/ RunPrepare(j)
    \/ RunCopy(j) \/ RunIoError(j) \/ RunSetFailed(j) \/ RunOnError(j)
    \/ RunSetCompleted(j) \/ RunOnComplete(j) \/ ThreadExit(j)

\* one job over one or two buckets and a cancel_job call
RunJobs == {1}

NextRun == NextFor(RunJobs, {1}, {"n1"}, MixedBatches)

\* the job's thread is scheduled fairly and each mkdir and copy2 returns or
\* raises
SpecRunFair == Init /\ [][NextRun]_vars /\ WF_vars(WorkerStep(1))

\* ------------------------------------------------------------ locks
\* The same classes at the granularity of their locks: entering a "with"
\* block (which waits until the lock is free) is a step, the block with the
\* release at its end is a step, and every callback and file-system call is
\* a step. A thread is a caller of CopyWorker / CopyJobRegistry or the
\* thread of a job; it holds one call frame.
Callers == 1..MaxCallers
WorkerOf(j) == MaxCallers + j
Threads == 1..(MaxCallers + MaxJobs)

NoFrame ==
    [op |-> "none", job |-> 0, name |-> "", target |-> "", ret |-> "",
     snap |-> <<>>, res |-> <<>>, count |-> 0]

\* Thread.is_alive() of the job's thread
ThreadIsAlive(j) == tpc[WorkerOf(j)] \notin {"none", "dead"}

\* leaving a "with" block frees the lock (KeepsLock: a block that does not)
KeepsLock(holder) == holder
ReleaseLock(holder) == 0
StateLockKept(holder) == holder
ReleaseStateLock(holder) == 0

\* the instructions that enter "with self._lock:" and "with self._state_lock:"
RegistryEntries == {"register", "unregister", "get", "active_job_count", "jobs"}
StateEntries == {"cancel", "state", "set_state"}

BodyOf(pc) ==
    CASE pc = "register" -> "register_body"
      [] pc = "unregister" -> "unregister_body"
      [] pc = "get" -> "get_body"
      [] pc = "active_job_count" -> "active_job_count_body"
      [] pc = "jobs" -> "jobs_body"
      [] pc = "cancel" -> "cancel_body"
      [] pc = "state" -> "state_body"
      [] pc = "set_state" -> "set_state_body"

\* the name -> state mapping that the registry and the jobs hold at an instant
Mapping(reg, st) ==
    [n \in Names |-> IF reg[n] = 0 THEN "absent" ELSE st[reg[n]]]

\* history kept for each list_jobs call in progress
Observe ==
    lseen' = [t \in Callers |->
                IF frame'[t].op # "list_jobs" THEN {}
                ELSE IF tpc'[t] = "return" THEN lseen[t]
                ELSE lseen[t] \cup {Mapping(registry', state')}]

coarseVars ==
    << jfiles, wpc, wEmit, bi, fi, cur, dest, fs, dirs, progLog, nComplete,
       errLog, cpc, cjob, cret, cEmit, flagPos, flagEarly, sawFlag,
       lateCopies, overwrites, ndirs, scanVars >>

\* with self._lock: entered by register, unregister, get, active_job_count
\* and jobs
AcquireLock(th) ==
    /\ tpc[th] \in RegistryEntries
    /\ lock = 0
    /\ lock' = th
    /\ tpc' = [tpc EXCEPT ![th] = BodyOf(@)]
    /\ UNCHANGED << state, transitions, cancelEvent, error, jname, registry, regKeys,
                    stateLog, state_lock, frame, nops, coarseVars >>
    /\ Observe

\* with self._state_lock: entered by cancel, the state property and
\* _set_state
AcquireStateLock(th) ==
    /\ tpc[th] \in StateEntries
    /\ state_lock[frame[th].job] = 0
    /\ state_lock' = [state_lock EXCEPT ![frame[th].job] = th]
    /\ tpc' = [tpc EXCEPT ![th] = BodyOf(@)]
    /\ UNCHANGED << state, transitions, cancelEvent, error, jname, registry, regKeys,
                    stateLog, lock, frame, nops, coarseVars >>
    /\ Observe

\* CopyWorker.copy_files is called: CopyJob.__init__ up to the assignment of
\* _state
CallCopyFiles(t, name, jobs) ==
    /\ tpc[t] = "idle" /\ nops < MaxOps
    /\ \E j \in jobs :
          /\ state[j] = "none"
          /\ \A k \in 1..(j - 1) : state[k] # "none"
          /\ state' = [state EXCEPT ![j] = QUEUED]
          /\ transitions' = [transitions EXCEPT ![j] =
                                Transition(@, state[j], QUEUED)]
          /\ jname' = [jname EXCEPT ![j] = name]
          /\ frame' = [frame EXCEPT ![t] =
                          [NoFrame EXCEPT !.op = "copy_files", !.job = j,
                                          !.name = name, !.target = QUEUED]]
    /\ nops' = nops + 1
    /\ tpc' = [tpc EXCEPT ![t] = "init_emit"]
    /\ UNCHANGED << cancelEvent, error, registry, regKeys, stateLog, lock,
                    state_lock, coarseVars >>
    /\ Observe

\* CopyJob.__init__: self._emit_state(JobState.QUEUED), which calls the
\* observer; then copy_files goes on to registry.register(job)
InitEmit(th) ==
    /\ tpc[th] = "init_emit"
    /\ stateLog' = [stateLog EXCEPT ![frame[th].job] = Append(@, QUEUED)]
    /\ tpc' = [tpc EXCEPT ![th] = "register"]
    /\ UNCHANGED << state, transitions, cancelEvent, error, jname, registry, regKeys, lock,
                    state_lock, frame, nops, coarseVars >>
    /\ Observe

\* register: self._jobs[job.custom_name] = job
RegisterBody(th) ==
    /\ tpc[th] = "register_body"
    /\ registry' = Register(registry, frame[th].name, frame[th].job)
    /\ regKeys' = KeysAfterRegister(regKeys, frame[th].name)
    /\ lock' = ReleaseLock(lock)
    /\ tpc' = [tpc EXCEPT ![th] = "start"]
    /\ UNCHANGED << state, transitions, cancelEvent, error, jname, stateLog, state_lock,
                    frame, nops, coarseVars >>
    /\ Observe

\* copy_files: job.start(); return job
JobStart(th) ==
    /\ tpc[th] = "start"
    /\ tpc' = [tpc EXCEPT ![th] = "return",
                          ![WorkerOf(frame[th].job)] = "run"]
    /\ frame' = [frame EXCEPT ![WorkerOf(frame[th].job)] =
                    [NoFrame EXCEPT !.op = "run", !.job = frame[th].job,
                                    !.name = frame[th].name]]
    /\ UNCHANGED << state, transitions, cancelEvent, error, jname, registry, regKeys,
                    stateLog, lock, state_lock, nops, coarseVars >>
    /\ Observe

\* a call returns to its caller
Return(t) ==
    /\ tpc[t] = "return"
    /\ tpc' = [tpc EXCEPT ![t] = "idle"]
    /\ frame' = [frame EXCEPT ![t] = NoFrame]
    /\ UNCHANGED << state, transitions, cancelEvent, error, jname, registry, regKeys,
                    stateLog, lock, state_lock, nops, coarseVars >>
    /\ Observe

\* CopyWorker.cancel_job(job_name) and CopyWorker.get_job(job_name) are
\* called: both begin with self._registry.get(job_name)
CallGet(t, op, name) ==
    /\ tpc[t] = "idle" /\ nops < MaxOps
    /\ nops' = nops + 1
    /\ frame' = [frame EXCEPT ![t] = [NoFrame EXCEPT !.op = op, !.name = name]]
    /\ tpc' = [tpc EXCEPT ![t] = "get"]
    /\ UNCHANGED << state, transitions, cancelEvent, error, jname, registry, regKeys,
                    stateLog, lock, state_lock, coarseVars >>
    /\ Observe

\* get: return self._jobs.get(job_name); cancel_job returns False when there
\* is no job, else enters job.cancel()
GetBody(th) ==
    /\ tpc[th] = "get_body"
    /\ lock' = ReleaseLock(lock)
    /\ frame' = [frame EXCEPT ![th].job = registry[frame[th].name],
                              ![th].res =
                                  << << frame[th].name,
                                        IF registry[frame[th].name] = 0
                                        THEN "None" ELSE "job" >> >>]
    /\ tpc' = [tpc EXCEPT ![th] =
                  IF frame[th].op = "cancel_job" /\ registry[frame[th].name] # 0
                  THEN "cancel" ELSE "return"]
    /\ UNCHANGED << state, transitions, cancelEvent, error, jname, registry, regKeys,
                    stateLog, state_lock, nops, coarseVars >>
    /\ Observe

\* cancel: if self._state in {COMPLETED, FAILED, CANCELLED}: return False
CancelBody(th) ==
    /\ tpc[th] = "cancel_body"
    /\ state_lock' = [state_lock EXCEPT ![frame[th].job] = ReleaseStateLock(@)]
    /\ IF state[frame[th].job] \in TerminalStates
       THEN /\ frame' = [frame EXCEPT ![th].res =
                                << << frame[th].name, "False" >> >>]
            /\ tpc' = [tpc EXCEPT ![th] = "return"]
       ELSE /\ tpc' = [tpc EXCEPT ![th] = "cancel_is_set"]
            /\ UNCHANGED frame
    /\ UNCHANGED << state, transitions, cancelEvent, error, jname, registry, regKeys,
                    stateLog, lock, nops, coarseVars >>
    /\ Observe

\* cancel: if self._cancel_event.is_set(): return False
CancelIsSet(th) ==
    /\ tpc[th] = "cancel_is_set"
    /\ IF cancelEvent[frame[th].job]
       THEN /\ frame' = [frame EXCEPT ![th].res =
                                << << frame[th].name, "False" >> >>]
            /\ tpc' = [tpc EXCEPT ![th] = "return"]
       ELSE /\ tpc' = [tpc EXCEPT ![th] = "cancel_set"]
            /\ UNCHANGED frame
    /\ UNCHANGED << state, transitions, cancelEvent, error, jname, registry, regKeys,
                    stateLog, lock, state_lock, nops, coarseVars >>
    /\ Observe

\* cancel: self._cancel_event.set()
CancelSet(th) ==
    /\ tpc[th] = "cancel_set"
    /\ cancelEvent' = [cancelEvent EXCEPT ![frame[th].job] = TRUE]
    /\ tpc' = [tpc EXCEPT ![th] = "cancel_is_alive"]
    /\ UNCHANGED << state, transitions, error, jname, registry, regKeys, stateLog, lock,
                    state_lock, frame, nops, coarseVars >>
    /\ Observe

\* cancel: if not self.is_alive(): self._set_state(CANCELLED); return True
CancelIsAlive(th) ==
    /\ tpc[th] = "cancel_is_alive"
    /\ frame' = [frame EXCEPT ![th].res = << << frame[th].name, "True" >> >>,
                              ![th].target = CANCELLED,
                              ![th].ret = "return"]
    /\ tpc' = [tpc EXCEPT ![th] =
                  IF ThreadIsAlive(frame[th].job) THEN "return" ELSE "set_state"]
    /\ UNCHANGED << state, transitions, cancelEvent, error, jname, registry, regKeys,
                    stateLog, lock, state_lock, nops, coarseVars >>
    /\ Observe

\* _set_state under the lock: if self._state == state: return; else
\* self._state = state, and the notification follows the block
SetStateBody(th) ==
    /\ tpc[th] = "set_state_body"
    /\ state_lock' = [state_lock EXCEPT ![frame[th].job] = ReleaseStateLock(@)]
    /\ state' = [state EXCEPT ![frame[th].job] = frame[th].target]
    /\ transitions' = [transitions EXCEPT ![frame[th].job] =
                          Transition(@, state[frame[th].job], frame[th].target)]
    /\ tpc' = [tpc EXCEPT ![th] =
                  IF StateChanges(state[frame[th].job], frame[th].target)
                  THEN "emit" ELSE frame[th].ret]
    /\ UNCHANGED << cancelEvent, error, jname, registry, regKeys, stateLog,
                    lock, frame, nops, coarseVars >>
    /\ Observe

\* _emit_state: the observer _state_handler calls on_status_change and, for
\* a terminal state, goes on to self._registry.unregister(job_name)
Emit(th) ==
    /\ tpc[th] = "emit"
    /\ stateLog' = [stateLog EXCEPT ![frame[th].job] = Append(@, frame[th].target)]
    /\ frame' = [frame EXCEPT ![th].name = jname[frame[th].job]]
    /\ tpc' = [tpc EXCEPT ![th] =
                  IF frame[th].target \in TerminalStates
                  THEN "unregister" ELSE frame[th].ret]
    /\ UNCHANGED << state, transitions, cancelEvent, error, jname, registry, regKeys, lock,
                    state_lock, nops, coarseVars >>
    /\ Observe

\* CopyJobRegistry.unregister(job_name) is called by a user of the registry
CallUnregister(t, name) ==
    /\ tpc[t] = "idle" /\ nops < MaxOps
    /\ nops' = nops + 1
    /\ frame' = [frame EXCEPT ![t] =
                    [NoFrame EXCEPT !.op = "unregister", !.name = name,
                                    !.ret = "return"]]
    /\ tpc' = [tpc EXCEPT ![t] = "unregister"]
    /\ UNCHANGED << state, transitions, cancelEvent, error, jname, registry, regKeys,
                    stateLog, lock, state_lock, coarseVars >>
    /\ Observe

\* unregister: self._jobs.pop(job_name, None)
UnregisterBody(th) ==
    /\ tpc[th] = "unregister_body"
    /\ registry' = Unregister(registry, frame[th].name)
    /\ regKeys' = KeysAfterUnregister(regKeys, frame[th].name)
    /\ lock' = ReleaseLock(lock)
    /\ tpc' = [tpc EXCEPT ![th] = frame[th].ret]
    /\ UNCHANGED << state, transitions, cancelEvent, error, jname, stateLog, state_lock,
                    frame, nops, coarseVars >>
    /\ Observe

\* CopyWorker.get_active_job_count() is called
CallGetActiveJobCount(t) ==
    /\ tpc[t] = "idle" /\ nops < MaxOps
    /\ nops' = nops + 1
    /\ frame' = [frame EXCEPT ![t] = [NoFrame EXCEPT !.op = "get_active_job_count"]]
    /\ tpc' = [tpc EXCEPT ![t] = "active_job_count"]
    /\ UNCHANGED << state, transitions, cancelEvent, error, jname, registry, regKeys,
                    stateLog, lock, state_lock, coarseVars >>
    /\ Observe

\* active_job_count: sum(1 for job in self._jobs.values() if job.is_alive())
ActiveJobCountBody(th) ==
    /\ tpc[th] = "active_job_count_body"
    /\ lock' = ReleaseLock(lock)
    /\ frame' = [frame EXCEPT ![th].count =
                    Cardinality({ n \in Names :
                                    /\ registry[n] # 0
                                    /\ ThreadIsAlive(registry[n]) })]
    /\ tpc' = [tpc EXCEPT ![th] = "return"]
    /\ UNCHANGED << state, transitions, cancelEvent, error, jname, registry, regKeys,
                    stateLog, state_lock, nops, coarseVars >>
    /\ Observe

\* CopyWorker.list_jobs() or CopyJobRegistry.jobs() is called: both begin
\* with jobs()
CallJobs(t, op) ==
    /\ tpc[t] = "idle" /\ nops < MaxOps
    /\ nops' = nops + 1
    /\ frame' = [frame EXCEPT ![t] = [NoFrame EXCEPT !.op = op]]
    /\ tpc' = [tpc EXCEPT ![t] = "jobs"]
    /\ UNCHANGED << state, transitions, cancelEvent, error, jname, registry, regKeys,
                    stateLog, lock, state_lock, coarseVars >>
    /\ Observe

\* jobs: return dict(self._jobs); list_jobs then iterates over its items,
\* reading job.state of the first
JobsBody(th) ==
    /\ tpc[th] = "jobs_body"
    /\ lock' = ReleaseLock(lock)
    /\ LET snapshot == [i \in 1..Len(regKeys) |->
                           << regKeys[i], registry[regKeys[i]] >>]
       IN /\ frame' = [frame EXCEPT
                          ![th].snap = snapshot,
                          ![th].job = IF snapshot = <<>> THEN 0
                                      ELSE snapshot[1][2]]
          /\ tpc' = [tpc EXCEPT ![th] =
                        IF frame[th].op = "list_jobs" /\ snapshot # <<>>
                        THEN "state" ELSE "return"]
    /\ UNCHANGED << state, transitions, cancelEvent, error, jname, registry, regKeys,
                    stateLog, state_lock, nops, coarseVars >>
    /\ Observe

\* the state property: return self._state; list_jobs puts it under the name
\* and goes on to the next item of the snapshot
StateBody(th) ==
    /\ tpc[th] = "state_body"
    /\ state_lock' = [state_lock EXCEPT ![frame[th].job] = ReleaseStateLock(@)]
    /\ LET rest == Tail(frame[th].snap)
       IN /\ frame' = [frame EXCEPT
                          ![th].res = Append(@, << frame[th].snap[1][1],
                                                   state[frame[th].job] >>),
                          ![th].snap = rest,
                          ![th].job = IF rest = <<>> THEN 0 ELSE rest[1][2]]
          /\ tpc' = [tpc EXCEPT ![th] =
                        IF rest = <<>> THEN "return" ELSE "state"]
    /\ UNCHANGED << state, transitions, cancelEvent, error, jname, registry, regKeys,
                    stateLog, lock, nops, coarseVars >>
    /\ Observe

\* run: if self._cancel_event.is_set(): _set_state(CANCELLED); return
\* else _set_state(RUNNING)
Run(th) ==
    /\ tpc[th] = "run"
    /\ frame' = [frame EXCEPT
                    ![th].target = IF cancelEvent[frame[th].job]
                                   THEN CANCELLED ELSE RUNNING,
                    ![th].ret = IF cancelEvent[frame[th].job]
                                THEN "exit" ELSE "mkdir_main"]
    /\ tpc' = [tpc EXCEPT ![th] = "set_state"]
    /\ UNCHANGED << state, transitions, cancelEvent, error, jname, registry, regKeys,
                    stateLog, lock, state_lock, nops, coarseVars >>
    /\ Observe

\* the positions of run() that call the file system, and what follows each
IoCalls == {"mkdir_main", "mkdir_ext", "copy"}

AfterIo(pc) ==
    CASE pc = "mkdir_main" -> "check_bucket"
      [] pc = "mkdir_ext" -> "check_file"
      [] pc = "copy" -> "completed"

\* main_folder.mkdir, ext_folder.mkdir, and dest_path.exists with
\* shutil.copy2 for the file of the batch
Io(th) ==
    /\ tpc[th] \in IoCalls
    /\ tpc' = [tpc EXCEPT ![th] = AfterIo(@)]
    /\ UNCHANGED << state, transitions, cancelEvent, error, jname, registry, regKeys,
                    stateLog, lock, state_lock, frame, nops, coarseVars >>
    /\ Observe

\* the file-system call raises: except Exception as exc:
\* self.error = str(exc); self._set_state(JobState.FAILED)
IoRaises(th) ==
    /\ tpc[th] \in IoCalls
    /\ error' = [error EXCEPT ![frame[th].job] = "OSError"]
    /\ frame' = [frame EXCEPT ![th].target = FAILED, ![th].ret = "on_error"]
    /\ tpc' = [tpc EXCEPT ![th] = "set_state"]
    /\ UNCHANGED << state, transitions, cancelEvent, jname, registry, regKeys, stateLog,
                    lock, state_lock, nops, coarseVars >>
    /\ Observe

\* the checks before the bucket and before the file:
\* if self._cancel_event.is_set(): self._set_state(CANCELLED); return
CheckCancel(th) ==
    /\ tpc[th] \in {"check_bucket", "check_file"}
    /\ IF cancelEvent[frame[th].job]
       THEN /\ frame' = [frame EXCEPT ![th].target = CANCELLED,
                                      ![th].ret = "exit"]
            /\ tpc' = [tpc EXCEPT ![th] = "set_state"]
       ELSE /\ tpc' = [tpc EXCEPT ![th] =
                          IF @ = "check_bucket" THEN "mkdir_ext" ELSE "progress"]
            /\ UNCHANGED frame
    /\ UNCHANGED << state, transitions, cancelEvent, error, jname, registry, regKeys,
                    stateLog, lock, state_lock, nops, coarseVars >>
    /\ Observe

\* the callbacks of run(): on_progress before the copy, on_complete and
\* on_error at its end
Callbacks == {"progress", "on_complete", "on_error"}

Callback(th) ==
    /\ tpc[th] \in Callbacks
    /\ tpc' = [tpc EXCEPT ![th] = IF @ = "progress" THEN "copy" ELSE "exit"]
    /\ UNCHANGED << state, transitions, cancelEvent, error, jname, registry, regKeys,
                    stateLog, lock, state_lock, frame, nops, coarseVars >>
    /\ Observe

\* the loops are through: self._set_state(JobState.COMPLETED)
Completed(th) ==
    /\ tpc[th] = "completed"
    /\ frame' = [frame EXCEPT ![th].target = COMPLETED, ![th].ret = "on_complete"]
    /\ tpc' = [tpc EXCEPT ![th] = "set_state"]
    /\ UNCHANGED << state, transitions, cancelEvent, error, jname, registry, regKeys,
                    stateLog, lock, state_lock, nops, coarseVars >>
    /\ Observe

\* run() returns and the thread stops
Exit(th) ==
    /\ tpc[th] = "exit"
    /\ tpc' = [tpc EXCEPT ![th] = "dead"]
    /\ UNCHANGED << state, transitions, cancelEvent, error, jname, registry, regKeys,
                    stateLog, lock, state_lock, frame, nops, coarseVars >>
    /\ Observe

\* the steps of copy_files and of the jobs' threads
JobSteps(callers, names, jobs) ==
    \/ \E t \in callers, name \in names : CallCopyFiles(t, name, jobs)
    \/ \E th \in Threads : InitEmit(th)
    \/ \E th \in Threads : AcquireLock(th)
    \/ \E th \in Threads : RegisterBody(th)
    \/ \E th \in Threads : JobStart(th)
    \/ \E th \in Threads : Return(th)
    \/ \E th \in Threads : Run(th)
    \/ \E th \in Threads : AcquireStateLock(th)
    \/ \E th \in Threads : SetStateBody(th)
    \/ \E th \in Threads : Emit(th)
    \/ \E th \in Threads : UnregisterBody(th)
    \/ \E th \in Threads : Io(th)
    \/ \E th \in Threads : IoRaises(th)
    \/ \E th \in Threads : CheckCancel(th)
    \/ \E th \in Threads : Callback(th)
    \/ \E th \in Threads : Completed(th)
    \/ \E th \in Threads : Exit(th)

ListSteps(callers) ==
    \/ \E t \in callers : CallJobs(t, "list_jobs")
    \/ \E th \in Threads : JobsBody(th)
    \/ \E th \in Threads : StateBody(th)

CancelSteps(callers, names) ==
    \/ \E t \in callers, name \in names : CallGet(t, "cancel_job", name)
    \/ \E th \in Threads : GetBody(th)
    \/ \E th \in Threads : CancelBody(th)
    \/ \E th \in Threads : CancelIsSet(th)
    \/ \E th \in Threads : CancelSet(th)
    \/ \E th \in Threads : CancelIsAlive(th)

RegistrySteps(callers, names) ==
    \/ \E t \in callers, name \in names : CallGet(t, "get_job", name)
    \/ \E t \in callers, name \in names : CallUnregister(t, name)
    \/ \E t \in callers : CallGetActiveJobCount(t)
    \/ \E t \in callers : CallJobs(t, "jobs")
    \/ \E th \in Threads : ActiveJobCountBody(th)

\* jobs started by one caller, which also calls list_jobs
NextList == JobSteps({1}, Names, JobIds) \/ ListSteps({1})

SpecList == Init /\ [][NextList]_vars

\* a job and concurrent callers of every operation of the worker and of its
\* registry
NextLocks ==
    \/ JobSteps(Callers, {"n1"}, {1})
    \/ ListSteps(Callers)
    \/ CancelSteps(Callers, {"n1"})
    \/ RegistrySteps(Callers, {"n1"})

SpecLocks == Init /\ [][NextLocks]_vars

\* a thread that is not idle takes its next step; one that waits for a lock
\* gets it when the lock is free
ThreadStep(th) ==
    \/ InitEmit(th) \/ AcquireLock(th) \/ RegisterBody(th) \/ JobStart(th)
    \/ Return(th) \/ Run(th) \/ AcquireStateLock(th) \/ SetStateBody(th)
    \/ Emit(th) \/ UnregisterBody(th) \/ Io(th) \/ IoRaises(th)
    \/ CheckCancel(th) \/ Callback(th) \/ Completed(th) \/ Exit(th)
    \/ JobsBody(th) \/ StateBody(th) \/ GetBody(th) \/ CancelBody(th)
    \/ CancelIsSet(th) \/ CancelSet(th) \/ CancelIsAlive(th)
    \/ ActiveJobCountBody(th)

SpecLocksFair == SpecLocks /\ \A th \in Threads : WF_vars(ThreadStep(th))

\* ------------------------------------------------------------ scans
\* FileManager.gather_files_by_date: the date groups found in each folder
ScanResult(folder) ==
    IF folder = "f1"
    THEN << [date |-> "2024-01-01", files |-> << "f1/a.jpg" >>] >>
    ELSE << [date |-> "2024-01-02", files |-> << "f2/b.jpg", "f2/c.jpg" >>],
            [date |-> "2024-01-05", files |-> << "f2/d.mov" >>] >>

\* a handler that takes every request for a stale one
IsStaleAlways(request_id, latest) == TRUE

\* a handler without the staleness test
IsStaleNever(request_id, latest) == FALSE

\* if request_id != self._request_id: return
IsStale(request_id, latest) == request_id # latest

\* SourceScanController.scan, called on the UI thread: the next request id
\* is taken, on_started is called and the worker thread is started
Scan(folder) ==
    /\ requestId < MaxScans
    /\ requestId' = requestId + 1
    /\ scans' = [scans EXCEPT ![requestId + 1] =
                    [status |-> "working", folder |-> folder, late |-> FALSE]]
    /\ cbLog' = Append(cbLog, << "started", requestId + 1 >>)
    /\ UNCHANGED << copyVars, threadVars, fileVars, uiQueue, fmSource, fmFiles, applied >>

\* worker(): gather_files_by_date returned; _handle_success is scheduled
ScanWorkerDone(r) ==
    /\ scans[r].status = "working"
    /\ uiQueue' = Append(uiQueue, [kind |-> "success", request_id |-> r,
                                    folder |-> scans[r].folder,
                                    files_by_date |-> ScanResult(scans[r].folder)])
    /\ scans' = [scans EXCEPT ![r].status = "posted", ![r].late = requestId > r]
    /\ UNCHANGED << copyVars, threadVars, fileVars, requestId, fmSource, fmFiles, cbLog, applied >>

\* worker(): gather_files_by_date raised; _handle_error is scheduled
ScanWorkerRaise(r) ==
    /\ scans[r].status = "working"
    /\ uiQueue' = Append(uiQueue, [kind |-> "error", request_id |-> r,
                                    folder |-> scans[r].folder,
                                    files_by_date |-> <<>>])
    /\ scans' = [scans EXCEPT ![r].status = "posted", ![r].late = requestId > r]
    /\ UNCHANGED << copyVars, threadVars, fileVars, requestId, fmSource, fmFiles, cbLog, applied >>

\* the UI thread runs the oldest scheduled call: _handle_success
HandleSuccess ==
    /\ uiQueue # <<>>
    /\ Head(uiQueue).kind = "success"
    /\ LET call == Head(uiQueue) IN
          /\ uiQueue' = Tail(uiQueue)
          /\ scans' = [scans EXCEPT ![call.request_id].status = "handled"]
          /\ IF IsStale(call.request_id, requestId)
             THEN UNCHANGED << fmSource, fmFiles, cbLog, applied >>
             ELSE /\ fmSource' = call.folder
                  /\ fmFiles' = call.files_by_date
                  /\ cbLog' = Append(cbLog, << "success", call.request_id >>)
                  /\ applied' = Append(applied, call.request_id)
    /\ UNCHANGED << copyVars, threadVars, fileVars, requestId >>

\* the UI thread runs the oldest scheduled call: _handle_error
HandleError ==
    /\ uiQueue # <<>>
    /\ Head(uiQueue).kind = "error"
    /\ LET call == Head(uiQueue) IN
          /\ uiQueue' = Tail(uiQueue)
          /\ scans' = [scans EXCEPT ![call.request_id].status = "handled"]
          /\ IF IsStale(call.request_id, requestId)
             THEN UNCHANGED cbLog
             ELSE cbLog' = Append(cbLog, << "error", call.request_id >>)
    /\ UNCHANGED << copyVars, threadVars, fileVars, requestId, fmSource, fmFiles, applied >>

NextScan ==
    \/ \E folder \in Folders : Scan(folder)
    \/ \E r \in ScanIds : ScanWorkerDone(r)
    \/ \E r \in ScanIds : ScanWorkerRaise(r)
    \/ HandleSuccess
    \/ HandleError

SpecScan == Init /\ [][NextScan]_vars

\* every worker thread comes to its end and the main loop of the UI runs the
\* calls that were scheduled
SpecScanFair ==
    /\ SpecScan
    /\ \A r \in ScanIds : WF_vars(ScanWorkerDone(r) \/ ScanWorkerRaise(r))
    /\ WF_vars(HandleSuccess \/ HandleError)

\* ------------------------------------------------------------ FileManager
\* A folder entry: its path (the rank of the path in sorted order), suffix,
\* kind, what stat() does on it and its st_mtime, whether Image.open reads
\* it, and the raw values of its EXIF date tags and of its IPTC date.
\* A timestamp counts half days; a date is a day number.  Day 1 lies in
\* the year 987, the later days in the year 2024.
NoDate == 0

YearOf(day) == IF day = 1 THEN 987 ELSE 2024

\* the decimal digits of a number, as "%Y" prints them (not padded)
RECURSIVE Digits(_)
Digits(n) == IF n < 10 THEN << n >> ELSE Append(Digits(n \div 10), n % 10)

\* strftime("%Y-%m-%d"): the characters of the date string; "-" sorts before
\* every digit
Strftime(day) == Digits(YearOf(day)) \o << -1, day >>

\* the order of str: the first character that differs decides, a proper
\* prefix comes first
StrLeq(a, b) ==
    LET differ == { i \in 1..Len(a) : i > Len(b) \/ a[i] # b[i] }
        first == CHOOSE i \in differ : \A k \in differ : i <= k
    IN  IF differ = {} THEN TRUE
        ELSE first <= Len(b) /\ a[first] < b[first]

\* sorted() on the date strings
KeyLeq(a, b) == StrLeq(Strftime(a), Strftime(b))
NoRaw == [fmt |-> "none", day |-> 0]
Raw(fmt, day) == [fmt |-> fmt, day |-> day]

EXIF_DATE_TAGS == {"DateTimeOriginal", "DateTimeDigitized", "DateTime"}

NoExif == [tag \in EXIF_DATE_TAGS |-> NoRaw]

Entry(path, suffix, is_file, stat, mtime, image, exif, iptc) ==
    [path |-> path, suffix |-> suffix, is_file |-> is_file, stat |-> stat,
     mtime |-> mtime, image |-> image, exif |-> exif, iptc |-> iptc]

\* the largest timestamp datetime.fromtimestamp converts
MaxTimestamp == 9

FolderEntries ==
    { \* two EXIF tags that disagree
      Entry(1, ".jpg", TRUE, "ok", 2, "ok",
            [NoExif EXCEPT !["DateTimeOriginal"] = Raw("datetime", 3),
                           !["DateTime"] = Raw("date", 4)], NoRaw),
      \* not an image inside, last modified in the year 987
      Entry(2, ".JPG", TRUE, "ok", 1, "unreadable", NoExif, NoRaw),
      \* a video
      Entry(3, ".mov", TRUE, "ok", 3, "unreadable", NoExif, NoRaw),
      \* not a media file
      Entry(4, ".txt", TRUE, "ok", 2, "unreadable", NoExif, NoRaw),
      \* stat fails, the EXIF date does not parse, the IPTC date does
      Entry(5, ".png", TRUE, "OSError", 0, "ok",
            [NoExif EXCEPT !["DateTime"] = Raw("garbage", 0)], Raw("iso", 2)),
      \* a directory named like a photo
      Entry(6, ".jpg", FALSE, "ok", 2, "unreadable", NoExif, NoRaw),
      \* a modification time beyond the range of datetime
      Entry(7, ".mov", TRUE, "ok", MaxTimestamp + 1, "unreadable", NoExif, NoRaw),
      \* stat fails and no embedded date parses
      Entry(8, ".png", TRUE, "OSError", 0, "ok",
            [NoExif EXCEPT !["DateTime"] = Raw("garbage", 0)], Raw("garbage", 0)) }

EntryAt(path) == CHOOSE e \in FolderEntries : e.path = path

\* the folders that are scanned: a missing one, and every folder of at most
\* MaxTreeFiles of the entries
Disks ==
    { [exists |-> FALSE, entries |-> {}] } \cup
    { [exists |-> TRUE, entries |-> s] :
        s \in { t \in SUBSET FolderEntries : Cardinality(t) <= MaxTreeFiles } }

\* the sequences that list every element of a set once
Orders(S) ==
    { o \in [1..Cardinality(S) -> S] :
        \A a, b \in 1..Cardinality(S) : a # b => o[a] # o[b] }

TagOrders == Orders(EXIF_DATE_TAGS)

IMAGE_METADATA_EXTENSIONS ==
    {".jpg", ".jpeg", ".tiff", ".tif", ".png", ".bmp"}

SUPPORTED_EXTENSIONS ==
    {".jpg", ".jpeg", ".png", ".gif", ".bmp", ".tiff", ".tif",
     ".nef", ".cr2", ".cr3", ".arw", ".dng", ".raw", ".orf",
     ".mp4", ".mov", ".avi", ".mkv", ".m4v"}

\* str.lower() on the suffixes that occur
LowerSuffix(suffix) == IF suffix = ".JPG" THEN ".jpg" ELSE suffix

\* _parse_exif_datetime: "%Y:%m:%d %H:%M:%S", then "%Y:%m:%d"
ParseExifDatetime(raw) ==
    IF raw.fmt \in {"datetime", "date"} THEN raw.day ELSE NoDate

\* _parse_iptc_date: "%Y%m%d", then "%Y-%m-%d"
ParseIptcDate(raw) ==
    IF raw.fmt \in {"compact", "iso"} THEN raw.day ELSE NoDate

\* _extract_exif_date: the first tag, in the iteration order of the set,
\* whose value parses
ExtractExifDate(f, order) ==
    LET hits == { i \in 1..Len(order) :
                    ParseExifDatetime(f.exif[order[i]]) # NoDate }
        first == CHOOSE i \in hits : \A k \in hits : i <= k
    IN  IF hits = {} THEN NoDate ELSE ParseExifDatetime(f.exif[order[first]])

\* _extract_iptc_date
ExtractIptcDate(f) == ParseIptcDate(f.iptc)

\* _get_metadata_date: None for other suffixes and when Image.open fails,
\* else the EXIF date, else the IPTC date
GetMetadataDate(f, order) ==
    IF LowerSuffix(f.suffix) \notin IMAGE_METADATA_EXTENSIONS THEN NoDate
    ELSE IF f.image # "ok" THEN NoDate
    ELSE IF ExtractExifDate(f, order) # NoDate THEN ExtractExifDate(f, order)
    ELSE ExtractIptcDate(f)

\* datetime.fromtimestamp(timestamp) raises ValueError, which the
\* except OSError of _get_filesystem_date does not catch
FromTimestampRaises(f) == f.stat = "ok" /\ f.mtime > MaxTimestamp

\* _get_filesystem_date: None when stat raises OSError, else the day of
\* st_mtime
GetFilesystemDate(f) ==
    IF f.stat = "OSError" THEN NoDate ELSE (f.mtime \div 2) + 1

\* a policy that always reads the metadata
UsesMetadataAlways(policy) == TRUE

\* if self.date_source == DateSource.METADATA
UsesMetadata(policy) == policy = METADATA

\* does _resolve_date_for_file open the file for its metadata
OpensImage(f, policy) ==
    /\ UsesMetadata(policy)
    /\ LowerSuffix(f.suffix) \in IMAGE_METADATA_EXTENSIONS

\* does _resolve_date_for_file call _get_filesystem_date
ReadsFilesystem(f, policy, order) ==
    ~UsesMetadata(policy) \/ GetMetadataDate(f, order) = NoDate

\* _resolve_date_for_file
ResolveDateForFile(f, policy, order) ==
    IF UsesMetadata(policy) /\ GetMetadataDate(f, order) # NoDate
    THEN GetMetadataDate(f, order)
    ELSE GetFilesystemDate(f)

\* files_by_date[date_str].append(file_path) on a defaultdict(list)
AppendToGroup(groups, date, path) ==
    IF \E g \in 1..Len(groups) : groups[g].date = date
    THEN [g \in 1..Len(groups) |->
            IF groups[g].date = date
            THEN [groups[g] EXCEPT !.files = Append(@, path)]
            ELSE groups[g]]
    ELSE Append(groups, [date |-> date, files |-> << path >>])

\* files_by_date[date_str].sort(): list.sort() on paths
RECURSIVE SortPaths(_)
SortPaths(paths) ==
    IF paths = <<>> THEN <<>>
    ELSE LET least == CHOOSE i \in 1..Len(paths) :
                          \A k \in 1..Len(paths) : paths[i] <= paths[k]
         IN  << paths[least] >> \o
             SortPaths(SubSeq(paths, 1, least - 1) \o
                       SubSeq(paths, least + 1, Len(paths)))

\* dict(sorted(files_by_date.items())) after sorting each list
RECURSIVE SortGroups(_)
SortGroups(groups) ==
    IF groups = <<>> THEN <<>>
    ELSE LET least == CHOOSE i \in 1..Len(groups) :
                          \A k \in 1..Len(groups) :
                              KeyLeq(groups[i].date, groups[k].date)
         IN  << [groups[least] EXCEPT !.files = SortPaths(@)] >> \o
             SortGroups(SubSeq(groups, 1, least - 1) \o
                        SubSeq(groups, least + 1, Len(groups)))

\* the candidates of a folder: the files with a supported suffix
Candidates(entries) ==
    { e.path : e \in { x \in entries :
        x.is_file /\ LowerSuffix(x.suffix) \in SUPPORTED_EXTENSIONS } }

\* ------------------------------------------------------------ gather_files_by_date
ctlVars == << requestId, scans, uiQueue, cbLog, applied >>

\* the exception leaves _scan_files
Raise(g, exc) == [g EXCEPT !.pc = "raised", !.exc = exc]

\* a scan that stores what it found in the manager
AfterGatherStored(files_by_date, found) == found

\* gather_files_by_date returns the mapping and assigns nothing to self
AfterGather(files_by_date, found) == files_by_date

\* a worker that hands a cancel event to the scan
WorkerPassesEventAlways == TRUE

\* worker(): self.file_manager.gather_files_by_date(folder_path), without a
\* cancel_event
WorkerPassesEvent == FALSE

\* a check that never sees the event
IsSetNever(event, flag) == FALSE

\* if cancel_event and cancel_event.is_set()
IsSet(event, flag) == event /\ flag

\* a caller calls gather_files_by_date(folder, on_progress, cancel_event),
\* with or without a cancel event
CallGather(event) ==
    /\ gather.pc = "idle"
    /\ gather' = [NoGather EXCEPT !.pc = "exists", !.event = event,
                                  !.on_progress = TRUE]
    /\ UNCHANGED << copyVars, threadVars, ctlVars, fmSource, fmFiles, disk,
                    tagOrder, uiLog, date_source, cancel_event, setAt, resolved >>

\* the worker thread of a scan request calls gather_files_by_date(folder)
WorkerGather(r) ==
    /\ gather.pc = "idle"
    /\ scans[r].status = "working"
    /\ gather' = [NoGather EXCEPT !.pc = "exists", !.via = r,
                                  !.event = WorkerPassesEvent]
    /\ UNCHANGED << copyVars, threadVars, ctlVars, fmSource, fmFiles, disk,
                    tagOrder, uiLog, date_source, cancel_event, setAt, resolved >>

\* if not source_folder or not source_folder.exists(): return {}
ScanExists ==
    /\ gather.pc = "exists"
    /\ gather' = IF disk.exists
                 THEN [gather EXCEPT !.pc = "check"]
                 ELSE [gather EXCEPT !.pc = "returned", !.result = <<>>]
    /\ UNCHANGED << copyVars, threadVars, ctlVars, fmSource, fmFiles, disk,
                    tagOrder, uiLog, date_source, cancel_event, setAt, resolved >>

\* the check before the folder is walked
ScanCheckStart ==
    /\ gather.pc = "check"
    /\ gather' = IF IsSet(gather.event, cancel_event)
                 THEN [Raise(gather, "ScanCancelledError") EXCEPT !.saw = TRUE]
                 ELSE [gather EXCEPT !.pc = "walk"]
    /\ UNCHANGED << copyVars, threadVars, ctlVars, fmSource, fmFiles, disk,
                    tagOrder, uiLog, date_source, cancel_event, setAt, resolved >>

\* the rglob loop collects the candidates, in the order the folder lists
\* them, and on_progress(0, total) is called
ScanWalk ==
    /\ gather.pc = "walk"
    /\ \E found \in Orders(Candidates(disk.entries)) :
          gather' = [gather EXCEPT
                        !.candidates = found,
                        !.total = Len(found),
                        !.i = 1,
                        !.progress = IF gather.on_progress
                                     THEN << << 0, Len(found) >> >> ELSE <<>>,
                        !.pc = IF found = <<>> THEN "sort" ELSE "loop"]
    /\ UNCHANGED << copyVars, threadVars, ctlVars, fmSource, fmFiles, disk,
                    tagOrder, uiLog, date_source, cancel_event, setAt, resolved >>

\* the folder cannot be listed: rglob raises
ScanWalkRaises ==
    /\ gather.pc = "walk"
    /\ gather' = Raise(gather, "OSError")
    /\ UNCHANGED << copyVars, threadVars, ctlVars, fmSource, fmFiles, disk,
                    tagOrder, uiLog, date_source, cancel_event, setAt, resolved >>

\* the check at the top of the loop over the candidates
ScanCheckFile ==
    /\ gather.pc = "loop"
    /\ gather' = IF IsSet(gather.event, cancel_event)
                 THEN [Raise(gather, "ScanCancelledError") EXCEPT !.saw = TRUE]
                 ELSE [gather EXCEPT !.pc = "resolve"]
    /\ UNCHANGED << copyVars, threadVars, ctlVars, fmSource, fmFiles, disk,
                    tagOrder, uiLog, date_source, cancel_event, setAt, resolved >>

\* the rest of the loop body: the date of the candidate is resolved; without
\* a date the candidate is passed over, else it joins its group and
\* on_progress(processed, total) is called
ScanResolve ==
    /\ gather.pc = "resolve"
    /\ LET f == EntryAt(gather.candidates[gather.i])
           date == ResolveDateForFile(f, date_source, tagOrder)
           next == IF gather.i = Len(gather.candidates) THEN "sort" ELSE "loop"
       IN  IF ReadsFilesystem(f, date_source, tagOrder) /\ FromTimestampRaises(f)
           THEN /\ gather' = Raise(gather, "ValueError")
                /\ UNCHANGED resolved
           ELSE /\ resolved' = Append(resolved,
                                  [path |-> f.path, policy |-> date_source,
                                   date |-> date,
                                   opened |-> OpensImage(f, date_source)])
                /\ gather' =
                      IF date = NoDate
                      THEN [gather EXCEPT !.i = @ + 1, !.pc = next]
                      ELSE [gather EXCEPT
                              !.files_by_date = AppendToGroup(@, date, f.path),
                              !.processed = @ + 1,
                              !.progress =
                                  IF gather.on_progress
                                  THEN Append(@, << gather.processed + 1,
                                                    gather.total >>)
                                  ELSE @,
                              !.i = @ + 1,
                              !.pc = next]
    /\ UNCHANGED << copyVars, threadVars, ctlVars, fmSource, fmFiles, disk,
                    tagOrder, uiLog, date_source, cancel_event, setAt >>

\* the lists are sorted, the groups are sorted by date, the mapping is
\* returned
ScanSort ==
    /\ gather.pc = "sort"
    /\ gather' = [gather EXCEPT !.pc = "returned",
                                !.result = SortGroups(gather.files_by_date)]
    /\ fmFiles' = AfterGather(fmFiles, SortGroups(gather.files_by_date))
    /\ UNCHANGED << copyVars, threadVars, ctlVars, fmSource, disk, tagOrder, uiLog,
                    date_source, cancel_event, setAt, resolved >>

\* worker(): the scan returned or raised (except Exception); the handler is
\* scheduled on the UI thread
WorkerPost ==
    /\ gather.via \in ScanIds
    /\ gather.pc \in {"returned", "raised"}
    /\ uiQueue' = Append(uiQueue,
                    [kind |-> IF gather.pc = "returned" THEN "success"
                              ELSE "error",
                     request_id |-> gather.via,
                     folder |-> scans[gather.via].folder,
                     files_by_date |-> gather.result])
    /\ scans' = [scans EXCEPT ![gather.via].status = "posted",
                              ![gather.via].late = requestId > gather.via]
    /\ gather' = [gather EXCEPT !.pc = "posted"]
    /\ UNCHANGED << copyVars, threadVars, requestId, cbLog, applied, fmSource,
                    fmFiles, disk, tagOrder, uiLog, date_source, cancel_event,
                    setAt, resolved >>

\* the caller stores the mapping it was returned:
\* apply_scan_results(source_folder, files_by_date)
ApplyScanResults ==
    /\ gather.via = 0
    /\ gather.pc = "returned"
    /\ fmSource' = "f1"
    /\ fmFiles' = gather.result
    /\ applied' = Append(applied, 0)
    /\ gather' = [gather EXCEPT !.pc = "applied"]
    /\ UNCHANGED << copyVars, threadVars, requestId, scans, uiQueue, cbLog,
                    disk, tagOrder, uiLog, date_source, cancel_event, setAt, resolved >>

\* set_date_source
SetDateSource(date_source_) ==
    /\ date_source # date_source_
    /\ date_source' = date_source_
    /\ UNCHANGED << copyVars, threadVars, ctlVars, fmSource, fmFiles, disk,
                    tagOrder, uiLog, cancel_event, gather, setAt, resolved >>

\* the caller sets the event it handed to the scan
SetCancelEvent ==
    /\ ~cancel_event
    /\ gather.pc = "idle" \/ gather.event
    /\ cancel_event' = TRUE
    /\ setAt' = [pc |-> gather.pc, i |-> gather.i, resolved |-> Len(resolved),
                 progress |-> Len(gather.progress)]
    /\ UNCHANGED << copyVars, threadVars, ctlVars, fmSource, fmFiles, disk,
                    tagOrder, uiLog, date_source, gather, resolved >>

\* the steps of _scan_files
ScanStep ==
    \/ ScanExists
    \/ ScanCheckStart
    \/ ScanWalk
    \/ ScanWalkRaises
    \/ ScanCheckFile
    \/ ScanResolve
    \/ ScanSort

\* a caller scans one of the folders, with one of the orders of the tags
InitGather ==
    /\ InitJobs
    /\ disk \in Disks
    /\ tagOrder \in TagOrders

NextGather ==
    \/ \E event \in BOOLEAN : CallGather(event)
    \/ ScanStep
    \/ ApplyScanResults
    \/ \E policy \in {FILESYSTEM, METADATA} : SetDateSource(policy)
    \/ SetCancelEvent

SpecGather == InitGather /\ [][NextGather]_vars

\* the folders the controller is asked to scan
ControllerDisks ==
    { d \in Disks : \A e \in d.entries : e.path \in {2, 4, 7} }

\* the folder is scanned by a caller or by the worker of a scan request
InitFiles ==
    /\ InitJobs
    /\ disk \in ControllerDisks
    /\ tagOrder = << "DateTimeOriginal", "DateTimeDigitized", "DateTime" >>

NextFiles ==
    \/ \E event \in BOOLEAN : CallGather(event)
    \/ Scan("f1")
    \/ \E r \in ScanIds : WorkerGather(r)
    \/ ScanStep
    \/ WorkerPost
    \/ ApplyScanResults
    \/ HandleSuccess
    \/ HandleError
    \/ \E policy \in {FILESYSTEM, METADATA} : SetDateSource(policy)
    \/ SetCancelEvent

SpecFiles == InitFiles /\ [][NextFiles]_vars

\* ------------------------------------------------------------ MainWindow
\* what set_source_folder finds in the folder the user has chosen
SourceGroups ==
    << [date |-> "2024-01-01", files |-> << FileName("a", <<>>, "jpg") >>],
       [date |-> "2024-01-02", files |-> << FileName("b", <<>>, "JPG"),
                                           FileName("c", <<>>, "") >>] >>

\* FileManager.get_files_for_date: files_by_date.get(date_str, [])
GetFilesForDate(groups, date_str) ==
    IF \E g \in 1..Len(groups) : groups[g].date = date_str
    THEN groups[CHOOSE g \in 1..Len(groups) : groups[g].date = date_str].files
    ELSE <<>>

\* FileManager.remove_date_group: del files_by_date[date_str] when present
RemoveDateGroup(groups, date_str) ==
    SelectSeq(groups, LAMBDA g : g.date # date_str)

\* all_files of _execute_copy: the files of the selected dates, in the order
\* the selection is iterated in
RECURSIVE AllFiles(_, _)
AllFiles(groups, selected) ==
    IF selected = <<>> THEN <<>>
    ELSE GetFilesForDate(groups, Head(selected)) \o
         AllFiles(groups, Tail(selected))

\* the loop of _execute_copy that removes every selected date
RECURSIVE RemoveSelected(_, _)
RemoveSelected(groups, selected) ==
    IF selected = <<>> THEN groups
    ELSE RemoveSelected(RemoveDateGroup(groups, Head(selected)), Tail(selected))

\* date_list.get_selected_dates(): dates the list shows, each once, in the
\* order the set is iterated in
Selections(groups) ==
    LET dates == { groups[g].date : g \in 1..Len(groups) }
    IN  { s \in UNION { [1..n -> dates] : n \in 0..Len(groups) } :
            \A a, b \in 1..Len(s) : a # b => s[a] # s[b] }

\* MainWindow._scan_source_folder: file_manager.set_source_folder(folder)
ScanSourceFolder ==
    /\ fmSource' = "f1"
    /\ fmFiles' = SourceGroups
    /\ (fmSource # "f1" \/ fmFiles # SourceGroups)
    /\ UNCHANGED << copyVars, threadVars, ctlVars, fileVars >>

\* MainWindow._execute_copy with a target folder and a name: it returns on
\* an empty selection or when the selection holds no file; else the selected
\* groups are removed and copy_files constructs, registers and starts the job
ExecuteCopy(j, name, selected) ==
    /\ selected \in Selections(fmFiles)
    /\ selected # <<>>
    /\ AllFiles(fmFiles, selected) # <<>>
    /\ fmFiles' = RemoveSelected(fmFiles, selected)
    /\ RegisterJob(j, name, AllFiles(fmFiles, selected), "r0")
    /\ UNCHANGED << ctlVars, fmSource, fileVars >>

\* the calls of a handler that root.after has run for a job
Handled(handler, j) ==
    SelectSeq(uiLog, LAMBDA c : c.handler = handler /\ c.job = j)

\* MainWindow._on_copy_status_change run by the UI thread for the job's next
\* notified state: the status label is set, no group is touched
OnCopyStatusChange(j) ==
    /\ Len(Handled("_on_copy_status_change", j)) < Len(stateLog[j])
    /\ uiLog' = Append(uiLog,
           [handler |-> "_on_copy_status_change", job |-> j,
            arg |-> stateLog[j][Len(Handled("_on_copy_status_change", j)) + 1]])
    /\ UNCHANGED << copyVars, threadVars, ctlVars, fmSource, fmFiles, disk,
                    tagOrder, date_source, cancel_event, gather, setAt,
                    resolved >>

\* MainWindow._on_copy_error, scheduled after the Failed notification: the
\* progress bar goes, the message is shown, no group is touched
OnCopyError(j) ==
    /\ Len(Handled("_on_copy_error", j)) < Len(errLog[j])
    /\ Len(Handled("_on_copy_status_change", j)) = Len(stateLog[j])
    /\ uiLog' = Append(uiLog,
           [handler |-> "_on_copy_error", job |-> j, arg |-> FAILED])
    /\ UNCHANGED << copyVars, threadVars, ctlVars, fmSource, fmFiles, disk,
                    tagOrder, date_source, cancel_event, gather, setAt,
                    resolved >>

\* MainWindow._on_copy_complete, scheduled after the Completed notification
OnCopyComplete(j) ==
    /\ Len(Handled("_on_copy_complete", j)) < nComplete[j]
    /\ Len(Handled("_on_copy_status_change", j)) = Len(stateLog[j])
    /\ uiLog' = Append(uiLog,
           [handler |-> "_on_copy_complete", job |-> j, arg |-> COMPLETED])
    /\ UNCHANGED << copyVars, threadVars, ctlVars, fmSource, fmFiles, disk,
                    tagOrder, date_source, cancel_event, gather, setAt,
                    resolved >>

\* the window: a scan of the source folder, one copy of selected groups and
\* the handlers of its callbacks
NextWindow ==
    \/ ScanSourceFolder
    \/ \E selected \in Selections(SourceGroups) : ExecuteCopy(1, "n1", selected)
    \/ RunEmit(1)
    \/ RunCheckStart(1)
    \/ RunSetRunning(1)
    \/ RunMkMain(1)
    \/ RunCheckBucket(1)
    \/ RunMkBucket(1)
    \/ RunCheckFile(1)
    \/ RunPrepare(1)
    \/ RunCopy(1)
    \/ RunIoError(1)
    \/ RunSetFailed(1)
    \/ RunOnError(1)
    \/ RunSetCompleted(1)
    \/ RunOnComplete(1)
    \/ ThreadExit(1)
    \/ OnCopyStatusChange(1)
    \/ OnCopyError(1)
    \/ OnCopyComplete(1)

SpecWindow == Init /\ [][NextWindow]_vars

\* ------------------------------------------------------------ properties
Range(seq) == { seq[i] : i \in 1..Len(seq) }
Count(seq, x) == Cardinality({ i \in 1..Len(seq) : seq[i] = x })
CallsOn(j) == { t \in CancelIds : cjob[t] = j }
CallsReturned(j) == \A t \in CallsOn(j) : cpc[t] = "ret"
FilesOf(j) == { p \in DOMAIN fs : fs[p][1] = j }

\* the transitions of section 4.1, and construction into Queued
LegalTransitions ==
    { <<"none", QUEUED>>, <<QUEUED, RUNNING>>, <<QUEUED, CANCELLED>>,
      <<RUNNING, COMPLETED>>, <<RUNNING, FAILED>>, <<RUNNING, CANCELLED>> }

\* C1: under every interleaving of the worker with cancel(), a job's state
\* changes only along Queued->Running, Queued->Cancelled, Running->Completed,
\* Running->Failed or Running->Cancelled, and a terminal state never changes.
C1_OnlyLegalTransitions ==
    [][\A j \in JobIds :
          state[j]' # state[j] => <<state[j], state[j]'>> \in LegalTransitions]_vars

\* C2: at any time at most one non-terminal job exists per name (a second
\* copy_files with an active name starts no second worker).
C2_OneActiveJobPerName ==
    \A j, k \in JobIds :
        (j # k /\ state[j] \in {QUEUED, RUNNING} /\ state[k] \in {QUEUED, RUNNING})
            => jname[j] # jname[k]

C4_AtMostOneCancelSucceeds ==
    \A j \in JobIds :
        Cardinality({ t \in CallsOn(j) : cret[t] = "true" }) <= 1

\* C5: for each job at most one of on_complete invoked, on_error invoked and
\* Cancelled notified ever happens.
C5_OutcomesExclusive ==
    \A j \in JobIds :
        ~ (nComplete[j] > 0 /\ errLog[j] # <<>>)
        /\ ~ (nComplete[j] > 0 /\ CANCELLED \in Range(stateLog[j]))
        /\ ~ (errLog[j] # <<>> /\ CANCELLED \in Range(stateLog[j]))

\* C6 as stated: for every batch, once the job's thread is through, on_progress
\* was called once per file of the batch.
C6_ProgressPerFileAlways ==
    \A j \in JobIds : wpc[j] = "dead" => Len(progLog[j]) = Len(jfiles[j])

\* C6 amended: the on_progress calls of a job are (1, n), (2, n), ... in this
\* order, n being the batch size, never more than n of them; a job that runs
\* to completion has made exactly n calls, the last with current = total.
C6_ProgressCounts ==
    \A j \in JobIds :
        /\ Len(progLog[j]) <= Len(jfiles[j])
        /\ \A i \in 1..Len(progLog[j]) : progLog[j][i] = << i, Len(jfiles[j]) >>
        /\ wpc[j] \in {"complete", "oncomplete"} \/ nComplete[j] > 0
              => Len(progLog[j]) = Len(jfiles[j])

C6_Witness ==
    \E j \in JobIds :
        /\ nComplete[j] > 0
        /\ Len(jfiles[j]) = MaxTotalFiles
        /\ progLog[j][MaxTotalFiles] = << MaxTotalFiles, MaxTotalFiles >>

InBucket(paths, name, bucket) ==
    { p \in paths : p.job = name /\ p.bucket = bucket }

\* the destination of the file being copied is its own name when that is free,
\* else the name with the smallest counter k >= 1 that is free
SmallestFree(j) ==
    LET f == jfiles[j][CurIndex(j)]
        orig == DestPath(jname[j], BucketOf(f), f)
        named(k) == DestPath(jname[j], BucketOf(f), WithCounter(f, k))
    IN IF orig \notin DOMAIN fs THEN dest[j] = orig
       ELSE \E k \in 1..(Cardinality(DOMAIN fs) + 1) :
               /\ dest[j] = named(k)
               /\ named(k) \notin DOMAIN fs
               /\ \A m \in 1..(k - 1) : named(m) \in DOMAIN fs

\* C7: a copy job never overwrites: each file is written to a path that does
\* not exist at the time of the copy, the original name if free, otherwise
\* name_k with the smallest free k >= 1; after a job that completes, each
\* bucket holds its pre-existing files plus one file per input of the bucket.
C7_NeverOverwrites ==
    \A j \in JobIds :
        /\ overwrites[j] = 0
        /\ wpc[j] = "copy" => SmallestFree(j)
        /\ nComplete[j] > 0 =>
              \A f \in InputFiles :
                  Cardinality(InBucket(DOMAIN fs, jname[j], BucketOf(f)))
                    = Cardinality(InBucket(PreExisting, jname[j], BucketOf(f)))
                      + Cardinality({ i \in 1..Len(jfiles[j]) :
                                        BucketOf(jfiles[j][i]) = BucketOf(f) })

C7_Witness ==
    \E j \in JobIds :
        /\ nComplete[j] > 0
        /\ jname[j] = "n1"
        /\ DestPath("n1", "jpg", FileName("a", <<3>>, "jpg")) \in DOMAIN fs
        /\ DestPath("n1", "jpg", FileName("a", <<1, 1>>, "jpg")) \in DOMAIN fs

\* C8: also between jobs that copy into the same bucket at the same time, no
\* copy writes to a path that exists, so every input file of both jobs ends
\* up as its own destination file.
C8_NoOverwriteBetweenJobs ==
    \A j \in JobIds : overwrites[j] = 0

\* positions of run() at which the job is Running and not yet through
RunningPos == {"mkmain", "bucket", "mkbucket", "file", "prep", "copy"}

\* after the flag is set the worker begins at most one further copy, and a
\* check that sees the flag ends run() at once with the job Cancelled
AfterFlag(j) ==
    /\ lateCopies[j] <= 1
    /\ sawFlag[j] => wpc[j] \in {"exit", "dead"} /\ state[j] = CANCELLED

\* C10 as stated: after a running job's cancel flag is set, the worker begins
\* at most one further copy, does nothing after a check that sees the flag,
\* and finalizes the job as Cancelled.
C10_FlagAlwaysCancels ==
    \A j \in JobIds :
        /\ AfterFlag(j)
        /\ (flagPos[j] \in RunningPos /\ wpc[j] = "dead") => state[j] = CANCELLED

\* C10 amended: after a running job's cancel flag is set, the worker begins
\* at most one further copy; the first check that sees the flag ends run()
\* with the job Cancelled and no further directory or file; no file already
\* copied is removed; a worker that reaches no check after the flag was set
\* finalizes the job as Completed or Failed instead.
C10_CancelAtNextCheck ==
    /\ [](\A j \in JobIds :
            /\ AfterFlag(j)
            /\ (flagPos[j] \in RunningPos /\ wpc[j] = "dead" /\ ~sawFlag[j])
                  => \/ COMPLETED \in Range(stateLog[j])
                     \/ FAILED \in Range(stateLog[j]))
    /\ [][\A p \in DOMAIN fs : p \in DOMAIN fs']_vars

C10_Witness ==
    \E j \in JobIds :
        /\ flagPos[j] = "prep"
        /\ lateCopies[j] = 1
        /\ sawFlag[j]
        /\ wpc[j] = "dead"
        /\ state[j] = CANCELLED
        /\ Len(jfiles[j]) = 3
        /\ Cardinality(FilesOf(j)) = 2

\* the file copies of the job that have returned or raised
Attempted(j) ==
    Cardinality(FilesOf(j)) + (IF error[j] # "None" THEN 1 ELSE 0)

\* C11: when on_progress(k, n) is invoked the copy of the k-th file has
\* already finished: the number of progress calls never exceeds the number
\* of copy attempts that have returned or raised.
C11_ProgressAfterAttempt ==
    \A j \in JobIds : Len(progLog[j]) <= Attempted(j)

\* the bucket in which the input list first has a file of the bucket of
\* files[i], as an index of the input list
FirstSeen(files, i) ==
    CHOOSE m \in 1..i :
        /\ BucketOf(files[m]) = BucketOf(files[i])
        /\ \A q \in 1..(m - 1) : BucketOf(files[q]) # BucketOf(files[i])

\* the place of files[i] in the order "buckets as first seen, input order
\* inside a bucket"
Position(files, i) ==
    1 + Cardinality({ m \in 1..Len(files) :
                        \/ FirstSeen(files, m) < FirstSeen(files, i)
                        \/ FirstSeen(files, m) = FirstSeen(files, i) /\ m < i })

\* C12: the files are processed grouped by bucket (lower-cased extension,
\* no_extension for none), the buckets in the order of their first file in
\* the input and the files of a bucket in input order; the k-th progress
\* call is made for the k-th file of that order, and each file is written
\* into the folder of its bucket.
C12_ProcessingOrder ==
    \A j \in JobIds :
        /\ wpc[j] = "copy" =>
              /\ cur[j] = Position(jfiles[j], CurIndex(j))
              /\ progLog[j][Len(progLog[j])] = << cur[j], Len(jfiles[j]) >>
              /\ dest[j].bucket = BucketOf(jfiles[j][CurIndex(j)])
              /\ dest[j].bucket \in {"jpg", "no_extension"}
        /\ \A p \in FilesOf(j) :
              /\ p.bucket = BucketOf(jfiles[j][fs[p][2]])
              /\ Position(jfiles[j], fs[p][2]) <= cur[j]

\* the list b.JPG, c, a.jpg: a.jpg is copied second, into the bucket of b.JPG
C12_Witness ==
    \E j \in JobIds :
        /\ jfiles[j] = << FileName("b", <<>>, "JPG"), FileName("c", <<>>, ""),
                          FileName("a", <<>>, "jpg") >>
        /\ wpc[j] = "bucket"
        /\ cur[j] = 2
        /\ \E p \in FilesOf(j) : fs[p][2] = 3 /\ p.bucket = "jpg"
        /\ \A p \in FilesOf(j) : fs[p][2] # 2

\* C13: on_complete is invoked at most once per job, and only after every
\* file of the batch has been copied and the state has been set to Completed
\* and notified as Completed.
C13_CompleteAfterAll ==
    \A j \in JobIds :
        /\ nComplete[j] <= 1
        /\ (wpc[j] = "oncomplete" /\ wEmit[j] = "none") => state[j] = COMPLETED
        /\ ((wpc[j] = "oncomplete" /\ wEmit[j] = "none") \/ nComplete[j] > 0) =>
              /\ \A i \in 1..Len(jfiles[j]) :
                    \E p \in DOMAIN fs : fs[p] = << j, i >>
              /\ Count(stateLog[j], COMPLETED) = 1
              /\ errLog[j] = <<>>

C13_Witness ==
    \E j \in JobIds :
        /\ nComplete[j] = 1
        /\ wpc[j] = "dead"
        /\ Len(jfiles[j]) = MaxTotalFiles
        /\ Cardinality(FilesOf(j)) = MaxTotalFiles

\* C14: an error raised in the worker ends the job in state Failed with
\* job.error set, on_error(name, error text) is invoked exactly once and
\* on_complete is not invoked.
C14_ErrorEndsFailed ==
    \A j \in JobIds :
        error[j] # "None" =>
            /\ nComplete[j] = 0
            /\ Len(errLog[j]) <= 1
            /\ wpc[j] \in {"exit", "dead"} =>
                  /\ state[j] = FAILED
                  /\ errLog[j] = << error[j] >>
                  /\ Count(stateLog[j], FAILED) = 1

\* C15: in every reachable state, job.error is not None implies that the
\* job's state is Failed.
C15_ErrorOnlyWhenFailed ==
    \A j \in JobIds : error[j] # "None" => state[j] = FAILED

\* the step is the terminal transition of job j, or the notification of its
\* terminal state with the eviction that follows
TerminalStep(j) ==
    \/ state[j]' # state[j] /\ state[j]' \in TerminalStates
    \/ /\ stateLog[j]' # stateLog[j]
       /\ stateLog[j]'[Len(stateLog[j]')] \in TerminalStates

\* C16: the terminal transition of a job and the eviction that follows change
\* neither the state, nor the cancel flag, nor the registry entry of any
\* other job.
C16_TerminalAffectsNoOther ==
    [][\A j, k \in JobIds :
          (j # k /\ state[k] # "none" /\ TerminalStep(j)) =>
              /\ state[k]' = state[k]
              /\ cancelEvent[k]' = cancelEvent[k]
              /\ registry[jname[k]] = k => registry'[jname[k]] = k]_vars

\* C17: a registered job that reaches a terminal state is eventually removed
\* from the registry without a call of the user, and stays removed: get(name)
\* and list_jobs() no longer return it.
C17_AutoEvicts ==
    \A j \in JobIds :
        [](state[j] \in TerminalStates
              => <>[](\A name \in Names : registry[name] # j))

\* a job evicted after its worker ended it, and one evicted after cancel()
\* ended it
C17_Witness ==
    /\ state[1] = CANCELLED
    /\ stateLog[1] = << QUEUED, CANCELLED >>
    /\ \E t \in CancelIds : cpc[t] = "ret" /\ cret[t] = "true" /\ cjob[t] = 1
    /\ wpc[1] = "queued"
    /\ \A name \in Names : registry[name] # 1

\* the mapping a list_jobs call returns
ResultMapping(res) ==
    [n \in Names |->
        IF \E i \in 1..Len(res) : res[i][1] = n
        THEN res[CHOOSE i \in 1..Len(res) : res[i][1] = n][2]
        ELSE "absent"]

\* C18: the mapping list_jobs returns equals the registry's contents and the
\* jobs' states at one single instant between the call and its return.
C18_SnapshotConsistent ==
    \A t \in Callers :
        (frame[t].op = "list_jobs" /\ tpc[t] = "return")
            => ResultMapping(frame[t].res) \in lseen[t]

\* the thread waits at the entry of a "with" block
Waiting(th) == tpc[th] \in RegistryEntries \cup StateEntries

\* C19: every thread that requests the registry lock or a job's state lock
\* eventually obtains it, whatever the other callers and the notifications
\* of the workers do.
C19_NoDeadlock ==
    \A th \in Threads : [](Waiting(th) => <>(~Waiting(th)))

\* the worker's notification waits for the registry lock that a list_jobs
\* call holds, and a further caller waits for it as well
C19_Witness ==
    /\ tpc[WorkerOf(1)] = "unregister"
    /\ lock = 1
    /\ tpc[1] = "jobs_body"
    /\ tpc[2] = "get"

HoldsNoLock(th) == lock # th /\ \A j \in JobIds : state_lock[j] # th

\* C20: no callback and no file-system call is executed by a thread that
\* holds the registry lock or a state lock, and no thread holds the registry
\* lock and a state lock at once.
C20_NoCallbackUnderLock ==
    \A th \in Threads :
        /\ tpc[th] \in {"init_emit", "emit"} \cup Callbacks \cup IoCalls
              => HoldsNoLock(th)
        /\ ~ (lock = th /\ \E j \in JobIds : state_lock[j] = th)

\* the worker is about to notify Completed while one caller holds the job's
\* state lock and another the registry lock
C20_Witness ==
    /\ tpc[WorkerOf(1)] = "emit"
    /\ frame[WorkerOf(1)].target = COMPLETED
    /\ state_lock[1] = 1
    /\ lock = 2

IsPrefix(a, b) == Len(a) <= Len(b) /\ \A i \in 1..Len(a) : a[i] = b[i]

\* no thread is between a _set_state of job j and the notification it owes
NoEmitPending(j) ==
    wEmit[j] = "none" /\ \A t \in CallsOn(j) : cpc[t] # "c6"

\* C21: the state observer of a job is invoked once per state transition, in
\* the order of the transitions, and at most once for any state; setting the
\* state the job already has emits nothing, also when two threads set the
\* same state at the same time.
C21_NotifiedOncePerTransition ==
    \A j \in JobIds :
        /\ IsPrefix(stateLog[j], transitions[j])
        /\ NoEmitPending(j) => stateLog[j] = transitions[j]
        /\ \A s \in {QUEUED, RUNNING} \cup TerminalStates :
              Count(stateLog[j], s) <= 1

\* two cancel() calls on a job whose thread has not started both set
\* Cancelled: the second has returned without a notification, the first is
\* about to make the only one
C21_Witness ==
    /\ wpc[1] = "queued"
    /\ cjob[1] = 1 /\ cpc[1] = "c6"
    /\ cjob[2] = 1 /\ cpc[2] = "ret" /\ cret[2] = "true"
    /\ transitions[1] = << QUEUED, CANCELLED >>
    /\ stateLog[1] = << QUEUED >>

\* C25: a copy request with an empty file batch is rejected before any worker
\* starts: no job is registered for it, no thread is started and no
\* directory is created.
C25_EmptyBatchRejected ==
    \A j \in JobIds :
        (state[j] # "none" /\ jfiles[j] = <<>>) =>
            /\ \A name \in Names : registry[name] # j
            /\ wpc[j] \in {"none", "queued"}
            /\ ndirs[j] = 0

Active(j) == state[j] \in {QUEUED, RUNNING}

\* C28: a registered job that has not reached a terminal state is in the
\* registry under its name, also when the name is reused after an earlier
\* job of that name has ended or was cancelled (stated for the job that was
\* registered last under its name: jobs are numbered in the order of their
\* registration).
C28_ActiveJobRegistered ==
    \A j \in JobIds :
        (Active(j) /\ \A k \in JobIds : k > j => jname[k] # jname[j])
            => registry[jname[j]] = j

\* C30: a job whose cancel flag was set before the cancellation check that
\* precedes its last file never reaches Completed and never fires
\* on_complete.
C30_EarlyFlagNeverCompletes ==
    \A j \in JobIds :
        flagEarly[j] =>
            /\ state[j] # COMPLETED
            /\ COMPLETED \notin Range(transitions[j])
            /\ COMPLETED \notin Range(stateLog[j])
            /\ nComplete[j] = 0

\* the flag is set while the second of three files is copied; the check
\* before the third file ends the job
C30_Witness ==
    \E j \in JobIds :
        /\ flagEarly[j]
        /\ flagPos[j] = "copy"
        /\ Len(jfiles[j]) = 3
        /\ Cardinality(FilesOf(j)) = 2
        /\ wpc[j] = "dead"
        /\ state[j] = CANCELLED

\* C29: when each directory creation and file copy returns and the worker is
\* scheduled fairly, every job started by copy_files eventually reaches a
\* terminal state, whether or not cancel() is called.
C29_EventuallyTerminal ==
    \A j \in RunJobs :
        [](wpc[j] \notin {"none", "queued"} => <>(state[j] \in TerminalStates))

\* a job that was cancelled after the check before its last file and has
\* run to Completed, and one that was cancelled in time
C29_Witness ==
    /\ wpc[1] = "dead"
    /\ Len(jfiles[1]) = MaxTotalFiles
    /\ cjob[1] = 1 /\ cret[1] = "true"
    /\ state[1] = COMPLETED

\* C9: a scan whose worker finishes after a newer scan was requested is inert:
\* none of its callbacks is invoked and its grouping is never applied to the
\* file manager.
C9_StaleScanInert ==
    /\ \A r \in ScanIds :
          scans[r].late =>
              /\ << "success", r >> \notin Range(cbLog)
              /\ << "error", r >> \notin Range(cbLog)
              /\ r \notin Range(applied)
    /\ IF applied = <<>>
       THEN fmSource = "None" /\ fmFiles = <<>>
       ELSE /\ fmSource = scans[applied[Len(applied)]].folder
            /\ fmFiles = ScanResult(fmSource)

C9_Witness ==
    \E r \in ScanIds :
        /\ scans[r].late
        /\ scans[r].status = "handled"
        /\ scans[r].folder = "f1"
        /\ fmSource = "f2"
        /\ applied # <<>>

\* can the metadata of the file give a date
HasEmbeddedDate(f) ==
    /\ LowerSuffix(f.suffix) \in IMAGE_METADATA_EXTENSIONS
    /\ f.image = "ok"
    /\ \/ \E tag \in EXIF_DATE_TAGS : f.exif[tag].fmt \in {"datetime", "date"}
       \/ f.iptc.fmt \in {"compact", "iso"}

\* can the filesystem give a date: stat succeeds and its time is a date
HasFilesystemDate(f) == f.stat = "ok" /\ f.mtime <= MaxTimestamp

\* the paths in the groups of a mapping
Grouped(groups) == UNION { Range(groups[g].files) : g \in 1..Len(groups) }

\* C26: a candidate whose date can be determined neither from its metadata nor
\* from the filesystem is left out of every group and does not abort the
\* scan: the scan never ends with an exception raised while that candidate's
\* date is resolved.
C26_UndatedFileSkipped ==
    \A k \in 1..Len(gather.candidates) :
        LET f == EntryAt(gather.candidates[k]) IN
        (~HasEmbeddedDate(f) /\ ~HasFilesystemDate(f)) =>
            /\ ~(gather.pc = "raised" /\ gather.i = k
                 /\ gather.exc # "ScanCancelledError")
            /\ f.path \notin Grouped(gather.files_by_date)
            /\ f.path \notin Grouped(gather.result)

\* the scan has returned its mapping
Returned == gather.pc \in {"returned", "posted", "applied"}

\* the date the scan resolved for a path, NoDate when it resolved none
DateGiven(path) ==
    IF \E k \in 1..Len(resolved) : resolved[k].path = path
    THEN resolved[CHOOSE k \in 1..Len(resolved) : resolved[k].path = path].date
    ELSE NoDate

\* the places of a path in a mapping
Places(groups, path) ==
    { << g, k >> \in (1..Len(groups)) \X (1..MaxTreeFiles) :
        k <= Len(groups[g].files) /\ groups[g].files[k] = path }

\* C23: the mapping a successful scan returns has its dates in ascending
\* order and each list in ascending order of path; a file with a supported
\* extension whose date was resolved is in exactly one group, the one of
\* its date, and every other entry of the folder is in none.
C23_SortedGroups ==
    Returned =>
        LET res == gather.result IN
        /\ \A g \in 1..(Len(res) - 1) : res[g].date < res[g + 1].date
        /\ \A g \in 1..Len(res) :
              \A k \in 1..(Len(res[g].files) - 1) :
                  res[g].files[k] < res[g].files[k + 1]
        /\ \A e \in disk.entries :
              IF /\ e.is_file
                 /\ LowerSuffix(e.suffix) \in SUPPORTED_EXTENSIONS
                 /\ DateGiven(e.path) # NoDate
              THEN /\ Cardinality(Places(res, e.path)) = 1
                   /\ \A pl \in Places(res, e.path) :
                         res[pl[1]].date = DateGiven(e.path)
              ELSE Places(res, e.path) = {}

\* the dates the metadata of a file holds in a form that parses: those of
\* its EXIF date tags, else that of its IPTC date; none when the suffix has
\* no metadata support or the file is not readable as an image
CaptureDates(f) ==
    LET exif == { f.exif[tag].day : tag \in
                    { t \in EXIF_DATE_TAGS :
                        f.exif[t].fmt \in {"datetime", "date"} } }
        iptc == IF f.iptc.fmt \in {"compact", "iso"} THEN { f.iptc.day }
                ELSE {}
    IN  IF LowerSuffix(f.suffix) \notin IMAGE_METADATA_EXTENSIONS THEN {}
        ELSE IF f.image # "ok" THEN {}
        ELSE IF exif # {} THEN exif
        ELSE iptc

\* C27: a date resolved under METADATA is an embedded capture date of the
\* file when its suffix supports metadata and one parses, and its
\* filesystem date otherwise; a date resolved under FILESYSTEM is the
\* filesystem date and the file was not opened for its metadata.
C27_PolicyDecidesDate ==
    \A k \in 1..Len(resolved) :
        LET r == resolved[k]
            f == EntryAt(r.path)
        IN  IF r.policy = METADATA
            THEN IF CaptureDates(f) # {}
                 THEN r.date \in CaptureDates(f)
                 ELSE r.date = GetFilesystemDate(f)
            ELSE ~r.opened /\ r.date = GetFilesystemDate(f)

\* one scan has resolved a file by its EXIF date, one by the filesystem
\* because it is not readable as an image, and, after the policy changed,
\* one with an embedded date by the filesystem
C27_Witness ==
    \E a, b, c \in 1..Len(resolved) :
        /\ resolved[a].policy = METADATA
        /\ resolved[a].date \in CaptureDates(EntryAt(resolved[a].path))
        /\ resolved[a].date # GetFilesystemDate(EntryAt(resolved[a].path))
        /\ resolved[b].policy = METADATA
        /\ EntryAt(resolved[b].path).image = "unreadable"
        /\ resolved[b].date = GetFilesystemDate(EntryAt(resolved[b].path))
        /\ resolved[b].date # NoDate
        /\ resolved[c].policy = FILESYSTEM
        /\ CaptureDates(EntryAt(resolved[c].path)) # {}

\* the positions inside _scan_files
ScanPositions == {"exists", "check", "walk", "loop", "resolve", "sort"}

\* C24: no step of a gather_files_by_date scan, whether it goes on, returns
\* or raises, changes source_folder, files_by_date or date_source of the file
\* manager; source_folder and files_by_date change only in a step that
\* applies a result through apply_scan_results.
C24_GatherLeavesState ==
    /\ [][(gather.pc \in ScanPositions /\ gather' # gather) =>
              UNCHANGED << fmSource, fmFiles, date_source >>]_vars
    /\ [][(fmSource' # fmSource \/ fmFiles' # fmFiles) =>
              Len(applied') = Len(applied) + 1]_vars

\* a scan has returned a mapping with a group and the manager still holds
\* no folder and no group
C24_Witness ==
    /\ gather.pc = "returned"
    /\ gather.result # <<>>
    /\ fmSource = "None"
    /\ fmFiles = <<>>

C31_ProgressWhileRunning ==
    /\ [][\A j \in JobIds :
            progLog[j]' # progLog[j] =>
                /\ RUNNING \in Range(stateLog[j])
                /\ Range(stateLog[j]) \cap TerminalStates = {}]_vars
    /\ [](\A j \in JobIds :
            (CANCELLED \in Range(transitions[j])
             /\ RUNNING \notin Range(transitions[j])) => progLog[j] = <<>>)

\* a job was cancelled between two files, after two on_progress calls, and
\* its Cancelled notification has been made
C31_Witness ==
    /\ Len(progLog[1]) = 2
    /\ Len(jfiles[1]) = 3
    /\ stateLog[1] = << QUEUED, RUNNING, CANCELLED >>
    /\ wpc[1] = "dead"

\* the names the registry holds
Registered == { n \in Names : registry[n] # 0 }

\* C32: the number active_job_count() computes is, in the state in which it
\* is computed, the number of registered jobs that are Queued or Running; it
\* is at most the number of registered jobs, and at most the number of
\* registered jobs that are not in a terminal state.
C32_CountsActiveJobs ==
    [][\A th \in Threads :
          (tpc[th] = "active_job_count_body" /\ tpc[th]' = "return") =>
              /\ frame[th]'.count =
                    Cardinality({ n \in Registered :
                                    state[registry[n]] \in {QUEUED, RUNNING} })
              /\ frame[th]'.count <= Cardinality(Registered)
              /\ frame[th]'.count <=
                    Cardinality({ n \in Registered :
                                    state[registry[n]] \notin TerminalStates })]_vars

\* C33: get(name) never returns a job that is, when it is returned, in a
\* terminal state, and the mapping list_jobs() builds never holds a terminal
\* state.
C33_RegistryHoldsLiveJobs ==
    /\ [][\A th \in Threads :
            (tpc[th] = "get_body" /\ tpc[th]' # "get_body") =>
                \/ frame[th]'.job = 0
                \/ state[frame[th]'.job] \notin TerminalStates]_vars
    /\ [](\A th \in Threads :
            frame[th].op = "list_jobs" =>
                \A i \in 1..Len(frame[th].res) :
                    frame[th].res[i][2] \notin TerminalStates)

\* the callbacks that dispatched the outcome of a request
Dispatches(r) == Count(cbLog, << "success", r >>) + Count(cbLog, << "error", r >>)

\* the outcome of the request was dispatched once, a success after its
\* grouping was stored in the file manager
DispatchedOnce(r) ==
    /\ Dispatches(r) = 1
    /\ << "success", r >> \in Range(cbLog) =>
          /\ r \in Range(applied)
          /\ fmSource = scans[r].folder
          /\ fmFiles = ScanResult(scans[r].folder)

\* C34: while a request is the one made last, its outcome comes to be
\* dispatched exactly once, as on_success with its grouping in the file
\* manager or as on_error, unless a newer request is made; and no outcome is
\* ever dispatched twice.
C34_NewestScanDispatched ==
    /\ \A r \in ScanIds :
          (requestId = r) ~> (requestId # r \/ DispatchedOnce(r))
    /\ [](\A r \in ScanIds : Dispatches(r) <= 1)

\* the third request was dispatched as a success while the worker of the
\* first is still scanning and the second has ended stale
C34_Witness ==
    /\ requestId = 3
    /\ << "success", 3 >> \in Range(cbLog)
    /\ DispatchedOnce(3)
    /\ scans[1].status = "working"
    /\ scans[2].status = "handled" /\ scans[2].late

\* the scan has walked the folder
Walked == gather.candidates # <<>> \/ gather.progress # <<>>

\* the candidates the loop has gone through
Processed ==
    IF gather.pc \in {"loop", "resolve"} THEN gather.i - 1
    ELSE IF gather.pc = "raised" THEN gather.i - 1
    ELSE Len(gather.candidates)

\* C35: a scan that reports progress reports nothing before the walk has
\* ended, then (0, T) once, T being the number of candidates of the folder,
\* then (1, T), (2, T), ..., one report for every candidate the loop has
\* gone through, never beyond T; a scan that has gone through all its
\* candidates and returned has reported (T, T) last.
C35_ScanProgress ==
    LET T == Cardinality(Candidates(disk.entries))
        log == gather.progress
    IN  gather.on_progress =>
            /\ gather.pc \in {"exists", "check", "walk"} => log = <<>>
            /\ \A k \in 1..Len(log) : log[k] = << k - 1, T >>
            /\ Len(log) <= T + 1
            /\ (Walked /\ gather.pc # "sort") => Len(log) = 1 + Processed
            /\ (Returned /\ disk.exists) => log[Len(log)] = << T, T >>

\* the event that was handed to the scan was set before the scan ended
Signalled ==
    /\ gather.event
    /\ setAt.pc \in ScanPositions \cup {"idle"}

\* the scan has ended
Ended == gather.pc \in {"returned", "raised", "posted", "applied"}

\* C36: once the event of a scan is set, the scan classifies at most one
\* further candidate and then ends with ScanCancelledError; a cancelled scan
\* returns no grouping and reports no progress after it has aborted.
C36_SignalAborts ==
    Signalled =>
        /\ Len(resolved) <= setAt.resolved + 1
        /\ Ended => gather.exc = "ScanCancelledError"
        /\ gather.exc = "ScanCancelledError" =>
              /\ gather.result = <<>>
              /\ Len(gather.progress) <= setAt.progress + 1

\* the event was set before a check that the scan goes through
SetBeforeCheck ==
    \/ setAt.pc \in {"idle", "exists", "check", "loop"}
    \/ setAt.pc = "walk" /\ Candidates(disk.entries) # {}
    \/ setAt.pc = "resolve" /\ setAt.i < Len(gather.candidates)

\* C36, amended: once the event of a scan is set, the scan classifies at most
\* one further candidate and makes at most one further progress report; when
\* the event was set before a check the scan goes through, the scan of an
\* existing folder returns no grouping: it ends with ScanCancelledError, or
\* with the failure of the walk or of the one further candidate; when it was
\* set after the last check, the scan is not cancelled; a cancelled scan has
\* seen the event and returns no grouping.
C36_CancelAtNextCheck ==
    Signalled =>
        /\ Len(resolved) <= setAt.resolved + 1
        /\ Len(gather.progress) <= setAt.progress + 1
        /\ (SetBeforeCheck /\ Ended /\ disk.exists) =>
              /\ gather.pc = "raised"
              /\ gather.result = <<>>
              /\ gather.exc # "ScanCancelledError" =>
                    Len(resolved) = setAt.resolved
        /\ (~SetBeforeCheck /\ Ended) => gather.exc # "ScanCancelledError"
        /\ gather.exc = "ScanCancelledError" =>
              /\ gather.saw
              /\ gather.result = <<>>

\* the event was set while the second candidate was classified, and the
\* scan was cancelled at the check before the third
C36_Witness ==
    /\ Signalled
    /\ setAt.pc = "resolve"
    /\ setAt.resolved = 1
    /\ Len(resolved) = 2
    /\ gather.exc = "ScanCancelledError"
    /\ gather.files_by_date # <<>>

\* the groups whose files were queued for the job
QueuedGroups(j) ==
    { g \in Range(SourceGroups) : Range(g.files) \subseteq Range(jfiles[j]) }

\* the UI thread has run the handler of the job's Failed or Cancelled outcome
OutcomeHandled(j) ==
    \/ Handled("_on_copy_error", j) # <<>>
    \/ \E c \in Range(Handled("_on_copy_status_change", j)) : c.arg = CANCELLED

\* C37: once the Failed or Cancelled outcome of a copy job has been handled,
\* every group removed when its files were queued is in files_by_date again
\* with its files
C37_RemovedGroupsRestored ==
    \A j \in JobIds :
        (state[j] \in {FAILED, CANCELLED} /\ OutcomeHandled(j)) =>
            QueuedGroups(j) \subseteq Range(fmFiles)

\* the dates the scans of a file can read from its EXIF tags: one for every
\* order a process can iterate EXIF_DATE_TAGS in
ExifDates(f) == { ExtractExifDate(f, order) : order \in TagOrders }

\* C38: the date read from a file's EXIF tags is the same in every scan of
\* the unchanged file: it is the date of the first tag that parses, the tags
\* taken in the order DateTimeOriginal, DateTimeDigitized, DateTime, whatever
\* order the process iterates EXIF_DATE_TAGS in
C38_TagOrderFixed ==
    \A k \in 1..Len(resolved) :
        LET r == resolved[k]
            f == EntryAt(r.path)
        IN  (r.policy = METADATA /\ r.opened
               /\ ExtractExifDate(f, tagOrder) # NoDate) =>
                /\ r.date = ExtractExifDate(f,
                      << "DateTimeOriginal", "DateTimeDigitized", "DateTime" >>)
                /\ ExifDates(f) = { r.date }

====
